---- MODULE Spec2Model ----
(***************************************************************************)
(* Teamflow server: authentication core (auth.service, password.util,      *)
(* jwt.util, error middleware) and organization service, modelled as       *)
(* request handlers running concurrently over the relational tables.       *)
(* Every await of a handler is one step; the synchronous code up to the    *)
(* next await belongs to the step of the await before it.                  *)
(***************************************************************************)
EXTENDS Integers, FiniteSets, Sequences, TLC

\* ---------------------------------------------------------------- bounds
\* concurrent requests in flight
MaxReq == 2
\* refresh-token rows ever issued (crypto.randomUUID() is modelled as a counter)
MaxTokens == 3
\* reset tokens ever generated
MaxResets == 1
\* refresh-token rows ever issued where password changes are explored
MaxLogins == 2
\* organizations ever created
MaxOrgs == 2
\* readings of the clock 15 minutes apart
MaxTime == 2
\* organizations ever created where updates and deletes are explored
MaxTenants == 1
\* membership rows ever created by invitation
MaxInvites == 1
MaxLen == 3

\* ---------------------------------------------------------------- JwtUtil
\* strings are sequences of one-character strings
Chars == {"0", "1", "9", "s", "m", "h", "d", "x"}
Strings(n) == UNION {[1..k -> Chars] : k \in 0..n}
Expiries == Strings(MaxLen)
RefreshExpiries == {<<"1", "d">>, <<"d", "1">>}
Secrets == {"your-secret-key", "your-refresh-secret", "k1"}

\* \d and parseInt
Digits == {"0", "1", "2", "3", "4", "5", "6", "7", "8", "9"}
digit(c) ==
  CASE c = "0" -> 0 [] c = "1" -> 1 [] c = "2" -> 2 [] c = "3" -> 3 [] c = "4" -> 4
    [] c = "5" -> 5 [] c = "6" -> 6 [] c = "7" -> 7 [] c = "8" -> 8 [] c = "9" -> 9
RECURSIVE parseInt(_)
parseInt(ds) ==
  IF ds = <<>> THEN 0
  ELSE 10 * parseInt(SubSeq(ds, 1, Len(ds) - 1)) + digit(ds[Len(ds)])

\* (hours counted as 360 seconds)
multipliers_h360 == [s |-> 1, m |-> 60, h |-> 360, d |-> 86400]
multipliers == [s |-> 1, m |-> 60, h |-> 3600, d |-> 86400]
\* expiry.match(/^(\d+)([smhd])$/)
match(expiry) ==
  /\ Len(expiry) >= 2
  /\ \A i \in 1..(Len(expiry) - 1) : expiry[i] \in Digits
  /\ expiry[Len(expiry)] \in DOMAIN multipliers
parseExpiry(expiry) ==
  IF ~match(expiry) THEN 900
  ELSE parseInt(SubSeq(expiry, 1, Len(expiry) - 1)) * multipliers[expiry[Len(expiry)]]

\* (only the access secret is compared with its placeholder)
placeholderSecrets_accessOnly(accessTokenSecret, refreshTokenSecret) ==
  accessTokenSecret = "your-secret-key"
placeholderSecrets(accessTokenSecret, refreshTokenSecret) ==
  \/ accessTokenSecret = "your-secret-key"
  \/ refreshTokenSecret = "your-refresh-secret"
\* new JwtUtil(): the fields, and failed when the constructor threw
constructor(env, jwtSecret, jwtRefreshSecret, jwtExpiresIn, refreshExpiresIn) ==
  [state |-> IF env = "production" /\ placeholderSecrets(jwtSecret, jwtRefreshSecret)
             THEN "failed" ELSE "ready",
   accessTokenSecret |-> jwtSecret, refreshTokenSecret |-> jwtRefreshSecret,
   accessTokenExpiry |-> jwtExpiresIn, refreshTokenExpiry |-> refreshExpiresIn]
\* the module before it is loaded
Unloaded ==
  [state |-> "unloaded", accessTokenSecret |-> "", refreshTokenSecret |-> "",
   accessTokenExpiry |-> <<>>, refreshTokenExpiry |-> <<>>]
NoExpiry == [expiry |-> <<>>, seconds |-> 0]

\* ---------------------------------------------------------------- state
VARIABLES
  now,                 \* wall clock, in seconds
  nodeEnv,             \* envConfig.nodeEnv and process.env.NODE_ENV
  jwtUtil,             \* the JwtUtil singleton: its fields and whether construction threw
  expiresIn,           \* the expiry string parsed last and the seconds returned for it
  User,                \* table: rows [id, email, password]
  RefreshToken,        \* table: rows [id, userId, token, expiresAt]
  PasswordResetToken,  \* table: rows [id, userId, tokenHash, expiresAt, used]
  Organization,        \* table: rows [id, slug, name, ownerId, status]
  OrganizationMember,  \* table: rows [userId, organizationId, role, status]
  nextTokenId,         \* next crypto.randomUUID() for a refresh token
  nextRaw,             \* next crypto.randomBytes(32) for a reset token
  nextOrgId,           \* next organization id
  reqs,                \* the requests in flight: position and locals of each
  resp,                \* the response sent last, with the request it answers
  issued,              \* refresh tokens handed to clients
  mailed,              \* raw reset tokens handed to clients
  consumed,            \* refresh tokens a successful refresh was made with
  minted,              \* refresh tokens returned by a successful refresh
  redeemed             \* raw reset tokens a successful reset was made with

config == <<nodeEnv, jwtUtil, expiresIn>>
tables == <<User, RefreshToken, PasswordResetToken>>
orgTables == <<Organization, OrganizationMember>>
counters == <<nextTokenId, nextRaw, nextOrgId>>
history == <<issued, mailed, consumed, minted, redeemed>>
vars == <<now, nodeEnv, jwtUtil, expiresIn, User, RefreshToken, PasswordResetToken, Organization,
          OrganizationMember, nextTokenId, nextRaw, nextOrgId, reqs, resp,
          issued, mailed, consumed, minted, redeemed>>

\* ---------------------------------------------------------------- configuration
\* seconds between two readings of the clock
TickSeconds == 900
\* a reading of the clock more than seven days after the first
LongWait == 7 * 86400 + TickSeconds
\* the readings of the clock
Instants == {k * TickSeconds : k \in 0..MaxTime} \cup {LongWait}
\* a setting that envConfig does not define, read as a secret and as an expiry
undefined == "undefined"
undefinedExpiry == <<"undefined">>
\* refresh-token lifetime in seconds (jwtUtil.getRefreshTokenExpiry())
RefreshTTL == parseExpiry(jwtUtil.refreshTokenExpiry)
\* access-token lifetime in seconds (jwtUtil.getAccessTokenExpiry())
AccessTTL == parseExpiry(jwtUtil.accessTokenExpiry)
\* reset-token lifetime in seconds (expiresAt.setMinutes(+15))
ResetTTL == 15 * 60

Slots == 1..MaxReq
Emails == {"alice@x.com", "bob@x.com"}
Passwords == {"Abc12345!", "Xyz98765!"}
Modes == {"development", "production"}

\* ---------------------------------------------------------------- pure helpers
\* bcrypt keys on the first 72 bytes of its input
BcryptMaxBytes == 72
bcryptKey(password) ==
  IF Len(password) > BcryptMaxBytes THEN SubSeq(password, 1, BcryptMaxBytes) ELSE password
\* passwordUtil.hash: one-way, the stored value is never the plaintext
hash(password) == "$2a$10$" \o bcryptKey(password)
\* passwordUtil.compare
\* (a comparison that accepts every password)
compare_any(password, h) == TRUE
compare(password, h) == h = hash(password)
\* (a digest that does not depend on the raw token)
hashResetToken_fixed(raw) == [alg |-> "sha256", of |-> 0]
\* passwordUtil.hashResetToken: sha256 digest of the raw token
hashResetToken(raw) == [alg |-> "sha256", of |-> raw]

NoTok == [userId |-> 0, tokenId |-> 0, exp |-> 0, sig |-> "none"]
\* a token string that is not signed with the refresh secret
Forged == [userId |-> 0, tokenId |-> 0, exp |-> 0, sig |-> "bad"]
\* (a payload without the token id)
generateRefreshToken_noId(userId, tokenId, t) ==
  [userId |-> userId, tokenId |-> 0, exp |-> t + RefreshTTL, sig |-> "ok"]
\* jwtUtil.generateRefreshToken: payload {userId, tokenId}, exp = iat + ttl
generateRefreshToken(userId, tokenId, t) ==
  [userId |-> userId, tokenId |-> tokenId, exp |-> t + RefreshTTL, sig |-> "ok"]

\* errors thrown by handlers
ApiError(statusCode, message) ==
  [kind |-> "ApiError", statusCode |-> statusCode, message |-> message, code |-> ""]
badRequest(message) == ApiError(400, message)
unauthorized(message) == ApiError(401, message)
forbidden(message) == ApiError(403, message)
notFound(message) == ApiError(404, message)
\* (a conflict built with the status of a bad request)
conflict_badRequest(message) == ApiError(400, message)
conflict(message) == ApiError(409, message)
internal(message) == ApiError(500, message)
\* error raised by the persistence layer
PrismaError(code) ==
  [kind |-> "PrismaClientKnownRequestError", statusCode |-> 0, message |-> "prisma", code |-> code]
NoErr == [kind |-> "none", statusCode |-> 0, message |-> "", code |-> ""]

\* expiry.match(...) when the expiry is undefined
MatchOfUndefined ==
  [kind |-> "TypeError", statusCode |-> 0,
   message |-> "Cannot read properties of undefined (reading 'match')", code |-> ""]

\* jwtUtil.verifyRefreshToken: signature and expiry; without a secret jwt.verify
\* rejects every token
verifyRefreshToken(token, t) ==
  IF token.sig # "ok" \/ jwtUtil.refreshTokenSecret = undefined
    THEN unauthorized("Invalid refresh token")
  ELSE IF t >= token.exp THEN unauthorized("Refresh token expired")
  ELSE NoErr

\* access tokens: the payload's userId, the exp claim and whether the signature
\* was made with the access secret
NoAccess == [userId |-> 0, exp |-> 0, sig |-> "none"]
generateAccessToken(userId, t) == [userId |-> userId, exp |-> t + AccessTTL, sig |-> "ok"]
\* (the exp claim is not looked at)
verifyAccessToken_noExpiry(token, t) ==
  IF token.sig # "ok" \/ jwtUtil.accessTokenSecret = undefined
    THEN unauthorized("Invalid access token")
  ELSE NoErr
\* jwtUtil.verifyAccessToken: signature, then expiry; without a secret jwt.verify
\* rejects every token
verifyAccessToken(token, t) ==
  IF token.sig # "ok" \/ jwtUtil.accessTokenSecret = undefined
    THEN unauthorized("Invalid access token")
  ELSE IF t >= token.exp THEN unauthorized("Access token expired")
  ELSE NoErr
\* req.headers.authorization: what precedes the token, and the token
NoHeader == [scheme |-> "", token |-> NoAccess]

\* HTTP response: status, envelope message, whether a stack field is present,
\* the keys of data, data.message, data.refreshToken, data.devOnly_resetToken
NoRes == [status |-> 0, ok |-> FALSE, message |-> "", stack |-> FALSE, errors |-> FALSE,
          fields |-> {}, dmsg |-> "", token |-> NoTok, dev |-> 0]

\* errorHandler middleware
errorHandler(err, env) ==
  IF err.kind = "ZodError"
    THEN [NoRes EXCEPT !.status = 400, !.message = "Validation failed", !.errors = TRUE]
  ELSE IF err.kind = "PrismaClientKnownRequestError" /\ err.code = "P2002"
    THEN [NoRes EXCEPT !.status = 409, !.message = "Resource already exists"]
  ELSE IF err.kind = "PrismaClientKnownRequestError" /\ err.code = "P2025"
    THEN [NoRes EXCEPT !.status = 404, !.message = "Resource not found"]
  ELSE IF err.kind # "ApiError"
    THEN [NoRes EXCEPT !.status = 500,
                       !.message = IF err.message = "" THEN "Internal Server Error"
                                   ELSE err.message,
                       !.stack = (env = "development")]
  ELSE [NoRes EXCEPT !.status = err.statusCode, !.message = err.message,
                     !.stack = (env = "development")]

\* ApiResponse.success / ApiResponse.created
success(statusCode, message, fields, dmsg, token, dev) ==
  [status |-> statusCode, ok |-> TRUE, message |-> message, stack |-> FALSE,
   errors |-> FALSE, fields |-> fields, dmsg |-> dmsg, token |-> token, dev |-> dev]

\* a request slot with nothing in flight
Blank == [op |-> "none", pc |-> "idle", email |-> "", pw |-> "", npw |-> "",
          uid |-> 0, tok |-> NoTok, raw |-> 0, row |-> 0, out |-> NoTok, tid |-> 0,
          err |-> NoErr, auth |-> NoHeader, exp |-> 0, slug |-> "", why |-> "none", stale |-> FALSE,
          startTid |-> 0, page |-> 0, limit |-> 0, list |-> <<>>, total |-> -1,
          stored |-> "", organizationId |-> 0, memberRole |-> "",
          data |-> [name |-> "", slug |-> "", ownerId |-> 0, status |-> ""]]

Free(r) == reqs[r].pc = "idle"
At(r, op, pc) == reqs[r].op = op /\ reqs[r].pc = pc

\* the response res to request q: what the client sent and what it got
\* (again: the credential presented had already been redeemed by a successful call)
Reply(q, res) ==
  [op |-> q.op, uid |-> q.uid, tok |-> q.tok, raw |-> q.raw,
   why |-> q.why, stale |-> q.stale, startTid |-> q.startTid,
   again |-> (q.tok \in consumed \/ q.raw \in redeemed),
   list |-> q.list, total |-> q.total,
   organizationId |-> q.organizationId, memberRole |-> q.memberRole, res |-> res]
NoResp == [op |-> "none", uid |-> 0, tok |-> NoTok, raw |-> 0,
           why |-> "none", stale |-> FALSE, startTid |-> 0,
           again |-> FALSE, list |-> <<>>, total |-> -1,
           organizationId |-> 0, memberRole |-> "", res |-> NoRes]
Thrown(q, err) == Reply(q, errorHandler(err, nodeEnv))

UserByEmail(email) == {u \in User : u.email = email}
UserById(id) == {u \in User : u.id = id}
TokenRows(token) == {t \in RefreshToken : t.token = token}
ResetRows(digest) == {p \in PasswordResetToken : p.tokenHash = digest}

\* requests in flight that may still draw the id of a refresh-token row
TokenCreators ==
  {r \in Slots : \/ reqs[r].op = "register" /\ reqs[r].pc = "create"
                 \/ reqs[r].op = "login" /\ reqs[r].pc \in {"compare", "update"}
                 \/ reqs[r].op = "refreshToken" /\ reqs[r].pc = "findUnique"}
\* one more request that creates a refresh-token row stays within limit rows
TokenBudget(limit) == nextTokenId + Cardinality(TokenCreators) <= limit

InitStore ==
  /\ now = 0
  /\ User = {}
  /\ RefreshToken = {}
  /\ PasswordResetToken = {}
  /\ Organization = {}
  /\ OrganizationMember = {}
  /\ nextTokenId = 1
  /\ nextRaw = 1
  /\ nextOrgId = 1
  /\ reqs = [r \in Slots |-> Blank]
  /\ issued = {}
  /\ mailed = {}
  /\ consumed = {}
  /\ minted = {}
  /\ redeemed = {}
  /\ resp = NoResp
\* envConfig as env.config.ts declares it: none of the four JWT settings
envConfig ==
  [jwtSecret |-> undefined, jwtRefreshSecret |-> undefined,
   expiresIn |-> undefinedExpiry, refreshExpiresIn |-> undefinedExpiry]
\* the server is up: the JwtUtil singleton was built from envConfig
Init ==
  /\ InitStore
  /\ nodeEnv \in Modes
  /\ jwtUtil = constructor(nodeEnv, envConfig.jwtSecret, envConfig.jwtRefreshSecret,
                           envConfig.expiresIn, envConfig.refreshExpiresIn)
  /\ expiresIn = NoExpiry
\* the configuration the specification describes: two secrets and two
\* configuration-driven duration strings, "15m" for access and "7d" for refresh
envConfigured ==
  [jwtSecret |-> "k1", jwtRefreshSecret |-> "k2",
   expiresIn |-> <<"1", "5", "m">>, refreshExpiresIn |-> <<"7", "d">>]
\* the server is up with the configuration the specification describes
InitConfigured ==
  /\ InitStore
  /\ nodeEnv \in Modes
  /\ jwtUtil = constructor(nodeEnv, envConfigured.jwtSecret, envConfigured.jwtRefreshSecret,
                           envConfigured.expiresIn, envConfigured.refreshExpiresIn)
  /\ expiresIn = NoExpiry
\* the starts the specifications explore: the repository's, and the configured one
Start == Init \/ InitConfigured

\* the clock advances to a later reading
Tick ==
  /\ \E t \in Instants : t > now /\ now' = t
  /\ UNCHANGED <<config, tables, orgTables, counters, reqs, resp, history>>

\* ---------------------------------------------------------------- AuthService
\* generateTokens up to its await: what generateAccessToken and then
\* generateRefreshToken throw (parseExpiry first, then jwt.sign, which asks for a
\* secret), NoErr when both tokens are signed
generateTokens_throws ==
  LET noSecret == [kind |-> "Error", statusCode |-> 0,
                   message |-> "secretOrPrivateKey must have a value", code |-> ""]
  IN  IF jwtUtil.accessTokenExpiry = undefinedExpiry THEN MatchOfUndefined
      ELSE IF jwtUtil.accessTokenSecret = undefined THEN noSecret
      ELSE IF jwtUtil.refreshTokenExpiry = undefinedExpiry THEN MatchOfUndefined
      ELSE IF jwtUtil.refreshTokenSecret = undefined THEN noSecret
      ELSE NoErr
\* generateTokens up to its await: the id drawn, the refresh token signed and the
\* expiry computed from the clock, i.e. the row prisma.refreshToken.create is given
generateTokens(userId) ==
  LET token == generateRefreshToken(userId, nextTokenId, now)
  IN  [id |-> nextTokenId, userId |-> userId, token |-> token,
       expiresAt |-> now + RefreshTTL]

\* the columns of the created user that register returns (select of user.create)
registerSelect == {"user.id", "user.firstName", "user.lastName", "user.email",
                   "user.isEmailVerified", "user.createdAt"}

\* register: look the email up
register(r, email, password) ==
  /\ Free(r)
  /\ LET q == [Blank EXCEPT !.op = "register", !.email = email, !.pw = password]
     IN  IF UserByEmail(email) # {}
           THEN /\ resp' = Thrown(q, conflict("User with this email already exists."))
                /\ UNCHANGED reqs
           ELSE /\ reqs' = [reqs EXCEPT ![r] = [q EXCEPT !.pc = "create"]]
                /\ UNCHANGED resp
  /\ UNCHANGED <<now, config, tables, orgTables, counters, history>>

\* register: prisma.user.create (email is unique)
register_create(r) ==
  /\ At(r, "register", "create")
  /\ IF UserByEmail(reqs[r].email) # {}
       THEN /\ resp' = Thrown(reqs[r], PrismaError("P2002"))
            /\ reqs' = [reqs EXCEPT ![r] = Blank]
            /\ UNCHANGED <<User, nextTokenId>>
       ELSE LET id == Cardinality(User) + 1
                row == generateTokens(id)
                q == [Blank EXCEPT !.op = "register", !.uid = id]
            IN  /\ User' = User \cup {[id |-> id, email |-> reqs[r].email,
                                      password |-> hash(reqs[r].pw)]}
                /\ IF generateTokens_throws # NoErr
                     THEN /\ resp' = Thrown([Blank EXCEPT !.op = "register"],
                                              generateTokens_throws)
                          /\ reqs' = [reqs EXCEPT ![r] = Blank]
                          /\ UNCHANGED nextTokenId
                     ELSE /\ reqs' = [reqs EXCEPT ![r] =
                               [q EXCEPT !.pc = "generateTokens", !.tid = row.id,
                                         !.out = row.token, !.exp = row.expiresAt]]
                          /\ nextTokenId' = nextTokenId + 1
                          /\ UNCHANGED resp
  /\ UNCHANGED <<now, config, RefreshToken, PasswordResetToken, orgTables, nextRaw, nextOrgId,
                 history>>

\* register: prisma.refreshToken.create of generateTokens, then the 201 response
register_generateTokens(r) ==
  /\ At(r, "register", "generateTokens")
  /\ LET row == [id |-> reqs[r].tid, userId |-> reqs[r].uid, token |-> reqs[r].out,
                 expiresAt |-> reqs[r].exp]
     IN  /\ RefreshToken' = RefreshToken \cup {row}
         /\ issued' = issued \cup {row.token}
         /\ resp' = Reply([Blank EXCEPT !.op = "register"],
              success(201, "Registration Successful", registerSelect \cup {"user", "tokens"},
                      "", row.token, 0))
  /\ reqs' = [reqs EXCEPT ![r] = Blank]
  /\ UNCHANGED <<now, config, User, PasswordResetToken, orgTables, counters,
                 mailed, consumed, minted, redeemed>>

\* login: prisma.user.findUnique by email; the row read goes to passwordUtil.compare
login(r, email, password) ==
  /\ Free(r)
  /\ LET q == [Blank EXCEPT !.op = "login"]
         found == UserByEmail(email)
     IN  IF found = {}
           THEN /\ resp' = Thrown([q EXCEPT !.why = "no user"],
                                  unauthorized("Invalid Email or Password."))
                /\ UNCHANGED reqs
         ELSE LET user == CHOOSE u \in found : TRUE
              IN  /\ reqs' = [reqs EXCEPT ![r] =
                       [q EXCEPT !.pc = "compare", !.uid = user.id, !.pw = password,
                                 !.stored = user.password]]
                  /\ UNCHANGED resp
  /\ UNCHANGED <<now, config, tables, orgTables, counters, history>>

\* login: passwordUtil.compare of the password with the hash of the row read
login_compare(r) ==
  /\ At(r, "login", "compare")
  /\ IF ~compare(reqs[r].pw, reqs[r].stored)
       THEN /\ resp' = Thrown([Blank EXCEPT !.op = "login", !.why = "wrong password"],
                              unauthorized("Invalid Email or Password"))
            /\ reqs' = [reqs EXCEPT ![r] = Blank]
       ELSE /\ reqs' = [reqs EXCEPT ![r].pc = "update", ![r].stored = ""]
            /\ UNCHANGED resp
  /\ UNCHANGED <<now, config, tables, orgTables, counters, history>>

\* login: prisma.user.update of lastLoginAt (a column nothing reads; not kept),
\* then generateTokens up to its await
login_update(r) ==
  /\ At(r, "login", "update")
  /\ LET row == generateTokens(reqs[r].uid)
     IN  IF generateTokens_throws # NoErr
           THEN /\ resp' = Thrown([Blank EXCEPT !.op = "login"], generateTokens_throws)
                /\ reqs' = [reqs EXCEPT ![r] = Blank]
                /\ UNCHANGED nextTokenId
           ELSE /\ reqs' = [reqs EXCEPT ![r] =
                     [@ EXCEPT !.pc = "generateTokens", !.tid = row.id,
                               !.out = row.token, !.exp = row.expiresAt]]
                /\ nextTokenId' = nextTokenId + 1
                /\ UNCHANGED resp
  /\ UNCHANGED <<now, config, tables, orgTables, nextRaw, nextOrgId, history>>

\* login: prisma.refreshToken.create of generateTokens, then the 200 response
login_generateTokens(r) ==
  /\ At(r, "login", "generateTokens")
  /\ LET row == [id |-> reqs[r].tid, userId |-> reqs[r].uid, token |-> reqs[r].out,
                 expiresAt |-> reqs[r].exp]
     IN  /\ RefreshToken' = RefreshToken \cup {row}
         /\ issued' = issued \cup {row.token}
         /\ resp' = Reply([Blank EXCEPT !.op = "login"],
              success(200, "Login Successful.", {"user", "tokens"}, "", row.token, 0))
  /\ reqs' = [reqs EXCEPT ![r] = Blank]
  /\ UNCHANGED <<now, config, User, PasswordResetToken, orgTables, counters,
                 mailed, consumed, minted, redeemed>>

\* refreshToken: verify the presented token
refreshToken(r, token) ==
  /\ Free(r)
  /\ LET q == [Blank EXCEPT !.op = "refreshToken", !.tok = token,
                            !.stale = (token \in consumed)]
         err == verifyRefreshToken(token, now)
     IN  IF err # NoErr
           THEN /\ resp' = Thrown(q, err)
                /\ UNCHANGED reqs
           ELSE /\ reqs' = [reqs EXCEPT ![r] = [q EXCEPT !.pc = "findUnique"]]
                /\ UNCHANGED resp
  /\ UNCHANGED <<now, config, tables, orgTables, counters, history>>

\* refreshToken: look the ledger row up by token value, check its expiry, then
\* generateTokens up to its await
refreshToken_findUnique(r) ==
  /\ At(r, "refreshToken", "findUnique")
  /\ LET found == TokenRows(reqs[r].tok)
     IN  IF found = {}
           THEN /\ resp' = Thrown(reqs[r], unauthorized("Invalid refresh token"))
                /\ reqs' = [reqs EXCEPT ![r] = Blank]
                /\ UNCHANGED nextTokenId
         ELSE LET storedToken == CHOOSE t \in found : TRUE
                  row == generateTokens(storedToken.userId)
              IN  IF now > storedToken.expiresAt
                    THEN /\ reqs' = [reqs EXCEPT ![r] =
                              [@ EXCEPT !.pc = "deleteExpired", !.row = storedToken.id]]
                         /\ UNCHANGED <<resp, nextTokenId>>
                  ELSE IF generateTokens_throws # NoErr
                    THEN /\ resp' = Thrown(reqs[r], generateTokens_throws)
                         /\ reqs' = [reqs EXCEPT ![r] = Blank]
                         /\ UNCHANGED nextTokenId
                  ELSE /\ reqs' = [reqs EXCEPT ![r] =
                            [@ EXCEPT !.pc = "generateTokens", !.row = storedToken.id,
                                      !.uid = storedToken.userId, !.tid = row.id,
                                      !.out = row.token, !.exp = row.expiresAt]]
                       /\ nextTokenId' = nextTokenId + 1
                       /\ UNCHANGED resp
  /\ UNCHANGED <<now, config, tables, orgTables, nextRaw, nextOrgId, history>>

\* refreshToken: delete the expired row, then fail
refreshToken_deleteExpired(r) ==
  /\ At(r, "refreshToken", "deleteExpired")
  /\ LET rows == {t \in RefreshToken : t.id = reqs[r].row}
     IN  IF rows = {}
           THEN /\ resp' = Thrown(reqs[r], PrismaError("P2025"))
                /\ UNCHANGED RefreshToken
           ELSE /\ RefreshToken' = RefreshToken \ rows
                /\ resp' = Thrown(reqs[r], unauthorized("Refresh token expired"))
  /\ reqs' = [reqs EXCEPT ![r] = Blank]
  /\ UNCHANGED <<now, config, User, PasswordResetToken, orgTables, counters, history>>

\* refreshToken: prisma.refreshToken.create of generateTokens for the owner of
\* the stored row
refreshToken_generateTokens(r) ==
  /\ At(r, "refreshToken", "generateTokens")
  /\ LET row == [id |-> reqs[r].tid, userId |-> reqs[r].uid, token |-> reqs[r].out,
                 expiresAt |-> reqs[r].exp]
     IN  /\ RefreshToken' = RefreshToken \cup {row}
         /\ reqs' = [reqs EXCEPT ![r].pc = "delete"]
  /\ UNCHANGED <<now, config, User, PasswordResetToken, orgTables, counters, resp, history>>

\* (a rotation that forgets to delete the old row)
deleteById_keep(rows, id) == rows
\* the ledger after prisma.refreshToken.delete({where: {id}}) found its row
deleteById(rows, id) == {t \in rows : t.id # id}

\* refreshToken: delete the old row by id (rotation), then the 200 response
refreshToken_delete(r) ==
  /\ At(r, "refreshToken", "delete")
  /\ IF {t \in RefreshToken : t.id = reqs[r].row} = {}
       THEN /\ resp' = Thrown([reqs[r] EXCEPT !.uid = 0], PrismaError("P2025"))
            /\ UNCHANGED <<RefreshToken, history>>
       ELSE /\ RefreshToken' = deleteById(RefreshToken, reqs[r].row)
            /\ issued' = issued \cup {reqs[r].out}
            /\ consumed' = consumed \cup {reqs[r].tok}
            /\ minted' = minted \cup {reqs[r].out}
            /\ UNCHANGED <<mailed, redeemed>>
            /\ resp' = Reply([reqs[r] EXCEPT !.uid = 0],
                 success(200, "Token Refreshed Successfully.",
                         {"accessToken", "refreshToken", "expiresIn"}, "", reqs[r].out, 0))
  /\ reqs' = [reqs EXCEPT ![r] = Blank]
  /\ UNCHANGED <<now, config, User, PasswordResetToken, orgTables, counters>>

\* req.body of a request sent without a body: express.json() leaves it undefined
undefinedBody == [present |-> FALSE, refreshToken |-> NoTok, organizationId |-> 0]
\* req.body of a request whose JSON body carries these keys (NoTok, 0: key absent)
jsonBody(token, id) ==
  [present |-> TRUE, refreshToken |-> token, organizationId |-> id]
\* the empty string sent as refreshToken
EmptyTok == [userId |-> 0, tokenId |-> 0, exp |-> 0, sig |-> "empty"]
\* if (refreshToken): undefined and the empty string are falsy
truthy(token) == token \notin {NoTok, EmptyTok}
\* the where clause of logout's deleteMany: (userId, token) for a token
\* supplied, userId alone otherwise
logoutWhere(t, userId, token) ==
  IF truthy(token) THEN t.userId = userId /\ t.token = token ELSE t.userId = userId
\* (a logout that deletes one row per call)
logoutDelete_one(rows, userId, token) ==
  LET hit == {t \in rows : logoutWhere(t, userId, token)}
  IN  IF hit = {} THEN rows
      ELSE rows \ {CHOOSE t \in hit : \A o \in hit : t.id <= o.id}
\* prisma.refreshToken.deleteMany({ where })
logoutDelete(rows, userId, token) == {t \in rows : ~logoutWhere(t, userId, token)}

\* logout: const { refreshToken } = req.body throws when the request has no
\* body; else deleteMany by (userId, token), or by userId when no token is supplied
logout(r, userId, body) ==
  /\ Free(r)
  /\ UserById(userId) # {}
  /\ LET q == [Blank EXCEPT !.op = "logout", !.uid = userId, !.tok = body.refreshToken]
     IN  IF ~body.present
           THEN /\ resp' = Thrown([q EXCEPT !.why = "no body"],
                       [MatchOfUndefined EXCEPT !.message =
                          "Cannot destructure property 'refreshToken' of 'req.body' as it is undefined."])
                /\ UNCHANGED RefreshToken
           ELSE /\ RefreshToken' = logoutDelete(RefreshToken, userId, body.refreshToken)
                /\ resp' = Reply(q, success(200, "Logout Successful.", {}, "", NoTok, 0))
  /\ UNCHANGED <<now, config, User, PasswordResetToken, orgTables, counters, reqs, history>>

\* changePassword: prisma.user.findUnique by id; the row read goes to
\* passwordUtil.compare
changePassword(r, userId, currentPassword, newPassword) ==
  /\ Free(r)
  /\ LET q == [Blank EXCEPT !.op = "changePassword", !.uid = userId, !.npw = newPassword,
                            !.startTid = nextTokenId]
         found == UserById(userId)
     IN  IF found = {}
           THEN /\ resp' = Thrown(q, notFound("User Not Found."))
                /\ UNCHANGED reqs
         ELSE LET user == CHOOSE u \in found : TRUE
              IN  /\ reqs' = [reqs EXCEPT ![r] =
                       [q EXCEPT !.pc = "compare", !.pw = currentPassword,
                                 !.stored = user.password]]
                  /\ UNCHANGED resp
  /\ UNCHANGED <<now, config, tables, orgTables, counters, history>>

\* changePassword: passwordUtil.compare of the current password with the hash
\* of the row read
changePassword_compare(r) ==
  /\ At(r, "changePassword", "compare")
  /\ IF ~compare(reqs[r].pw, reqs[r].stored)
       THEN /\ resp' = Thrown([reqs[r] EXCEPT !.pc = "idle", !.pw = "", !.stored = ""],
                              unauthorized("Current password is incorrect"))
            /\ reqs' = [reqs EXCEPT ![r] = Blank]
       ELSE /\ reqs' = [reqs EXCEPT ![r].pc = "update", ![r].pw = "", ![r].stored = ""]
            /\ UNCHANGED resp
  /\ UNCHANGED <<now, config, tables, orgTables, counters, history>>

\* changePassword: store the hash of the new password
changePassword_update(r) ==
  /\ At(r, "changePassword", "update")
  /\ User' = {IF u.id = reqs[r].uid THEN [u EXCEPT !.password = hash(reqs[r].npw)] ELSE u
              : u \in User}
  /\ reqs' = [reqs EXCEPT ![r].pc = "deleteMany", ![r].npw = ""]
  /\ UNCHANGED <<now, config, RefreshToken, PasswordResetToken, orgTables, counters,
                 resp, history>>

\* (a revocation that removes nothing)
deleteManyByUser_none(rows, userId) == rows
\* the ledger after prisma.refreshToken.deleteMany({where: {userId}})
deleteManyByUser(rows, userId) == {t \in rows : t.userId # userId}

\* changePassword: revoke every refresh token of the user, then the 200 response
changePassword_deleteMany(r) ==
  /\ At(r, "changePassword", "deleteMany")
  /\ RefreshToken' = deleteManyByUser(RefreshToken, reqs[r].uid)
  /\ resp' = Reply(reqs[r], success(200, "Password Changed Successfully", {"message"},
                                     "Password changed successfully", NoTok, 0))
  /\ reqs' = [reqs EXCEPT ![r] = Blank]
  /\ UNCHANGED <<now, config, User, PasswordResetToken, orgTables, counters, history>>

\* requestPasswordReset: look the user up; generate the raw token and its expiry
requestPasswordReset(r, email) ==
  /\ Free(r)
  /\ LET q == [Blank EXCEPT !.op = "requestPasswordReset"]
         found == UserByEmail(email)
     IN  IF found = {}
           THEN /\ resp' = Reply([q EXCEPT !.why = "no user"],
                     success(200, "Password reset request processed.", {"message"},
                             "If this email exists, a reset link has been sent.", NoTok, 0))
                /\ UNCHANGED <<reqs, nextRaw>>
           ELSE /\ reqs' = [reqs EXCEPT ![r] = [q EXCEPT !.pc = "deleteMany", !.why = "user",
                     !.uid = (CHOOSE u \in found : TRUE).id, !.raw = nextRaw,
                     !.exp = now + ResetTTL]]
                /\ nextRaw' = nextRaw + 1
                /\ UNCHANGED resp
  /\ UNCHANGED <<now, config, tables, orgTables, nextTokenId, nextOrgId, history>>

\* (a request that leaves the earlier reset tokens in place)
deleteResetTokens_none(rows, userId) == rows
\* prisma.passwordResetToken.deleteMany({ where: { userId } })
deleteResetTokens(rows, userId) == {p \in rows : p.userId # userId}

\* requestPasswordReset: delete the user's existing reset tokens
requestPasswordReset_deleteMany(r) ==
  /\ At(r, "requestPasswordReset", "deleteMany")
  /\ PasswordResetToken' = deleteResetTokens(PasswordResetToken, reqs[r].uid)
  /\ reqs' = [reqs EXCEPT ![r].pc = "create"]
  /\ UNCHANGED <<now, config, User, RefreshToken, orgTables, counters, resp, history>>

\* the data requestPasswordReset returns for an email that has a user, as sent
\* by the forgotPassword handler
forgotPasswordBody(raw, env) ==
  success(200, "Password reset request processed.", {"message", "devOnly_resetToken"},
          "If this email exists, a reset link has been sent.", NoTok, raw)

\* requestPasswordReset: store the digest, then the 200 response
requestPasswordReset_create(r) ==
  /\ At(r, "requestPasswordReset", "create")
  /\ PasswordResetToken' = PasswordResetToken \cup
        {[id |-> reqs[r].raw, userId |-> reqs[r].uid, tokenHash |-> hashResetToken(reqs[r].raw),
          expiresAt |-> reqs[r].exp, used |-> FALSE]}
  /\ mailed' = mailed \cup {reqs[r].raw}
  /\ resp' = Reply([Blank EXCEPT !.op = "requestPasswordReset", !.why = "user"],
                   forgotPasswordBody(reqs[r].raw, nodeEnv))
  /\ reqs' = [reqs EXCEPT ![r] = Blank]
  /\ UNCHANGED <<now, config, User, RefreshToken, orgTables, counters, issued, consumed,
                 minted, redeemed>>

\* (a check that forgets the used flag)
resetTokenCheck_skipUsed(found, t) ==
  IF found = {} THEN "missing"
  ELSE IF t > (CHOOSE p \in found : TRUE).expiresAt THEN "expired"
  ELSE "none"
\* why resetPassword rejects the row found for a digest ("none": it accepts)
resetTokenCheck(found, t) ==
  IF found = {} THEN "missing"
  ELSE LET resetToken == CHOOSE p \in found : TRUE
       IN  IF resetToken.used THEN "used"
           ELSE IF t > resetToken.expiresAt THEN "expired"
           ELSE "none"

\* (an error that tells an expired token from an unknown one)
resetTokenError_split(why) ==
  IF why = "expired" THEN badRequest("Reset token expired")
  ELSE badRequest("Invalid or expired reset token")
\* the error resetPassword throws for a rejected token
resetTokenError(why) == badRequest("Invalid or expired reset token")

\* resetPassword: look the row up by digest and check it
resetPassword(r, rawToken, newPassword) ==
  /\ Free(r)
  /\ LET q == [Blank EXCEPT !.op = "resetPassword", !.raw = rawToken, !.npw = newPassword,
                            !.startTid = nextTokenId]
         found == ResetRows(hashResetToken(rawToken))
         why == resetTokenCheck(found, now)
     IN  IF why # "none"
           THEN /\ resp' = Thrown([q EXCEPT !.why = why], resetTokenError(why))
                /\ UNCHANGED reqs
           ELSE LET resetToken == CHOOSE p \in found : TRUE
                IN  /\ reqs' = [reqs EXCEPT ![r] =
                         [q EXCEPT !.pc = "update", !.uid = resetToken.userId,
                                   !.row = resetToken.id]]
                    /\ UNCHANGED resp
  /\ UNCHANGED <<now, config, tables, orgTables, counters, history>>

\* resetPassword: store the hash of the new password
resetPassword_update(r) ==
  /\ At(r, "resetPassword", "update")
  /\ User' = {IF u.id = reqs[r].uid THEN [u EXCEPT !.password = hash(reqs[r].npw)] ELSE u
              : u \in User}
  /\ reqs' = [reqs EXCEPT ![r].pc = "markUsed", ![r].npw = ""]
  /\ UNCHANGED <<now, config, RefreshToken, PasswordResetToken, orgTables, counters,
                 resp, history>>

\* (the row is deleted where it should be kept)
markUsed_delete(rows, id) == {p \in rows : p.id # id}
\* prisma.passwordResetToken.update({ where: { id }, data: { used: true } })
markUsed(rows, id) == {IF p.id = id THEN [p EXCEPT !.used = TRUE] ELSE p : p \in rows}

\* resetPassword: mark the reset-token row used (update by id)
resetPassword_markUsed(r) ==
  /\ At(r, "resetPassword", "markUsed")
  /\ IF {p \in PasswordResetToken : p.id = reqs[r].row} = {}
       THEN /\ resp' = Thrown(reqs[r], PrismaError("P2025"))
            /\ reqs' = [reqs EXCEPT ![r] = Blank]
            /\ UNCHANGED PasswordResetToken
       ELSE /\ PasswordResetToken' = markUsed(PasswordResetToken, reqs[r].row)
            /\ reqs' = [reqs EXCEPT ![r].pc = "deleteMany"]
            /\ UNCHANGED resp
  /\ UNCHANGED <<now, config, User, RefreshToken, orgTables, counters, history>>

\* resetPassword: revoke every refresh token of the user, then the 200 response
resetPassword_deleteMany(r) ==
  /\ At(r, "resetPassword", "deleteMany")
  /\ RefreshToken' = deleteManyByUser(RefreshToken, reqs[r].uid)
  /\ redeemed' = redeemed \cup {reqs[r].raw}
  /\ resp' = Reply(reqs[r], success(200, "Password reset successful.", {"message"},
        "Password reset successfully. Please log in with your new password.", NoTok, 0))
  /\ reqs' = [reqs EXCEPT ![r] = Blank]
  /\ UNCHANGED <<now, config, User, PasswordResetToken, orgTables, counters, issued,
                 mailed, consumed, minted>>

UserIds == {u.id : u \in User}

NextRefresh ==
  \/ Tick
  \/ \E r \in Slots :
       \/ \E e \in Emails : TokenBudget(MaxTokens) /\ register(r, e, "Abc12345!")
       \/ register_create(r)
       \/ register_generateTokens(r)
       \/ \E t \in issued \cup {Forged} :
            /\ TokenBudget(MaxTokens) \/ TokenRows(t) = {}
            /\ refreshToken(r, t)
       \/ refreshToken_findUnique(r)
       \/ refreshToken_deleteExpired(r)
       \/ refreshToken_generateTokens(r)
       \/ refreshToken_delete(r)
       \/ \E u \in UserIds, t \in issued \cup {NoTok} : logout(r, u, jsonBody(t, 0))
\* the server started in production mode
InitProduction == Start /\ nodeEnv = "production"
SpecRefresh == InitProduction /\ [][NextRefresh]_vars

\* ---------------------------------------------------------------- passwords
\* reset tokens: one user asks for reset tokens and redeems them
NextReset ==
  \/ Tick
  \/ \E r \in Slots :
       \/ TokenBudget(MaxLogins) /\ register(r, "alice@x.com", "Abc12345!")
       \/ register_create(r)
       \/ register_generateTokens(r)
       \/ \E e \in Emails : nextRaw <= MaxResets /\ requestPasswordReset(r, e)
       \/ requestPasswordReset_deleteMany(r)
       \/ requestPasswordReset_create(r)
       \/ \E t \in mailed \cup {0}, n \in Passwords : resetPassword(r, t, n)
       \/ resetPassword_update(r)
       \/ resetPassword_markUsed(r)
       \/ resetPassword_deleteMany(r)
SpecReset == InitProduction /\ [][NextReset]_vars

\* password changes: one user logs in, changes and resets the password
\* (the clock advances between requests)
NextRevoke ==
  \/ (\A r \in Slots : Free(r)) /\ Tick
  \/ \E r \in Slots :
       \/ TokenBudget(MaxLogins) /\ register(r, "alice@x.com", "Abc12345!")
       \/ register_create(r)
       \/ register_generateTokens(r)
       \/ \E p \in Passwords : TokenBudget(MaxLogins) /\ login(r, "alice@x.com", p)
       \/ login_compare(r)
       \/ login_update(r)
       \/ login_generateTokens(r)
       \/ \E u \in UserIds, c \in Passwords, n \in Passwords : changePassword(r, u, c, n)
       \/ changePassword_compare(r)
       \/ changePassword_update(r)
       \/ changePassword_deleteMany(r)
       \/ nextRaw <= MaxResets /\ requestPasswordReset(r, "alice@x.com")
       \/ requestPasswordReset_deleteMany(r)
       \/ requestPasswordReset_create(r)
       \/ \E t \in mailed, n \in Passwords : resetPassword(r, t, n)
       \/ resetPassword_update(r)
       \/ resetPassword_markUsed(r)
       \/ resetPassword_deleteMany(r)
SpecRevoke == InitProduction /\ [][NextRevoke]_vars

\* ---------------------------------------------------------------- refresh-token rotation
\* what a refreshToken call presented with token decides, given the ledger and the time
RefreshAccepts(token, rows, t) ==
  /\ verifyRefreshToken(token, t) = NoErr
  /\ \E row \in rows : row.token = token /\ ~(t > row.expiresAt)

\* the step by which request r returns 200 from refreshToken
RefreshReturns(r) ==
  /\ At(r, "refreshToken", "delete")
  /\ reqs'[r].pc = "idle"
  /\ resp'.op = "refreshToken"
  /\ resp'.res.status = 200

\* C1: a refreshToken call made with a token T after a refreshToken call with T
\* succeeded is answered 401, and when a refreshToken call returns 200 the token
\* it returns has its row in the ledger and (unless its lifetime has already run
\* out) a refreshToken call presenting it is accepted.
C1_RotationOnUse ==
  /\ [](resp.op = "refreshToken" /\ resp.stale => resp.res.status = 401)
  /\ [][\A r \in Slots : RefreshReturns(r) =>
          /\ \E row \in RefreshToken' : row.token = resp'.res.token
          /\ resp'.res.token # resp'.tok
          /\ (now' < resp'.res.token.exp =>
                RefreshAccepts(resp'.res.token, RefreshToken', now'))]_vars

\* a token returned by a refresh was itself refreshed with success, and a call
\* with an already consumed token has just been answered 401
C1_Witness ==
  /\ minted \cap consumed # {}
  /\ resp.op = "refreshToken" /\ resp.stale /\ resp.res.status = 401

\* C2: a refreshToken call presenting a token that another refreshToken call has
\* already been answered 200 for (before or while this one ran) does not succeed
\* and is answered with the Unauthorized kind (401).
C2_SecondUseUnauthorized ==
  resp.op = "refreshToken" /\ resp.again => resp.res.status = 401

\* ---------------------------------------------------------------- password change and reset
\* the step by which request r returns 200 from changePassword or resetPassword
PasswordCallReturns(r) ==
  /\ reqs[r].op \in {"changePassword", "resetPassword"}
  /\ reqs[r].pc = "deleteMany"
  /\ reqs'[r].pc = "idle"
  /\ resp'.res.status = 200

\* C3: when changePassword or resetPassword returns success for a user the
\* ledger holds no row of that user, and as long as that response is the last
\* one sent, no refresh token handed to that user before the call began is
\* accepted by refreshToken.
C3_PasswordChangeRevokes ==
  /\ [][\A r \in Slots : PasswordCallReturns(r) =>
          {t \in RefreshToken' : t.userId = reqs[r].uid} = {}]_vars
  /\ [](resp.op \in {"changePassword", "resetPassword"} /\ resp.res.status = 200 =>
          \A t \in issued : t.userId = resp.uid /\ t.tokenId < resp.startTid =>
             ~RefreshAccepts(t, RefreshToken, now))

\* changePassword has just returned success for a user who held a refresh token
\* that is still within its lifetime, after a resetPassword had succeeded too
C3_Witness ==
  /\ resp.op = "changePassword" /\ resp.res.status = 200
  /\ redeemed # {}
  /\ \E t \in issued : /\ t.userId = resp.uid /\ t.tokenId < resp.startTid
                       /\ verifyRefreshToken(t, now) = NoErr

\* the row stored for the digest of raw is used or past its expiry
StaleResetRow(raw) ==
  \E p \in PasswordResetToken :
     p.tokenHash = hashResetToken(raw) /\ (p.used \/ now > p.expiresAt)

\* C4: a resetPassword call whose token's row is used or past its expiry when
\* the call looks it up goes no further (it never reaches the password update):
\* it is answered 400 and the User, PasswordResetToken and RefreshToken tables
\* are left as they were.
C4_StaleTokenChangesNothing ==
  [][/\ \A r \in Slots : Free(r) /\ reqs'[r].op = "resetPassword" =>
          ~StaleResetRow(reqs'[r].raw)
     /\ (resp' # resp /\ resp'.op = "resetPassword" /\ reqs' = reqs
           /\ StaleResetRow(resp'.raw)) =>
          (resp'.res.status = 400 /\ tables' = tables)]_vars

\* a call presenting a token that an earlier call redeemed has been rejected
C4_Witness ==
  /\ resp.op = "resetPassword" /\ resp.why = "used" /\ resp.res.status = 400
  /\ resp.raw \in redeemed

\* C5: a resetPassword call that returns success presents a raw token that no
\* other resetPassword call has returned success for.
C5_OneTimeReset ==
  resp.op = "resetPassword" /\ resp.res.status = 200 => ~resp.again

\* C6: whatever makes resetPassword reject the token (no row for the digest,
\* row used, row past its expiry) the response is the same: 400 with the
\* message 'Invalid or expired reset token' and nothing else.
C6_SameRejection ==
  resp.op = "resetPassword" /\ resp.why \in {"missing", "used", "expired"} =>
     resp.res = [NoRes EXCEPT !.status = 400, !.message = "Invalid or expired reset token"]

\* a token that was never redeemed has been rejected because it is expired
C6_Witness ==
  /\ resp.op = "resetPassword" /\ resp.why = "expired"
  /\ resp.raw \in mailed /\ resp.raw \notin redeemed

\* ---------------------------------------------------------------- login and forgot-password responses
NextLogin ==
  \/ Tick
  \/ \E r \in Slots :
       \/ \E p \in Passwords : TokenBudget(MaxLogins) /\ register(r, "alice@x.com", p)
       \/ register_create(r)
       \/ register_generateTokens(r)
       \/ \E e \in Emails, p \in Passwords : TokenBudget(MaxLogins) /\ login(r, e, p)
       \/ login_compare(r)
       \/ login_update(r)
       \/ login_generateTokens(r)
SpecLogin == Start /\ [][NextLogin]_vars

\* C7: two failed logins answered one after the other, whatever made each fail
\* (no user for the email, wrong password), get the same response: the same
\* status, 401, and the same message.
C7_LoginFailuresIdentical ==
  [][(/\ resp.op = "login" /\ resp.why \in {"no user", "wrong password"}
      /\ resp'.op = "login" /\ resp'.why \in {"no user", "wrong password"}) =>
        (resp'.res = resp.res /\ resp'.res.status = 401)]_vars

NextForgot ==
  \/ Tick
  \/ \E r \in Slots :
       \/ TokenBudget(MaxLogins) /\ register(r, "alice@x.com", "Abc12345!")
       \/ register_create(r)
       \/ register_generateTokens(r)
       \/ \E e \in Emails : nextRaw <= MaxResets /\ requestPasswordReset(r, e)
       \/ requestPasswordReset_deleteMany(r)
       \/ requestPasswordReset_create(r)
SpecForgot == Start /\ [][NextForgot]_vars

\* C8: two forgot-password requests answered one after the other, one for an
\* email that has a user and one for an email that has none, get bodies with
\* the same message and the same set of fields.
C8_ForgotPasswordUniform ==
  [][(resp.op = "requestPasswordReset" /\ resp'.op = "requestPasswordReset") =>
        (/\ resp'.res.status = resp.res.status
         /\ resp'.res.dmsg = resp.res.dmsg
         /\ resp'.res.fields = resp.res.fields)]_vars

\* C9: in production mode no forgot-password response carries the
\* devOnly_resetToken field or the raw reset token.
C9_NoRawTokenInProduction ==
  nodeEnv = "production" /\ resp.op = "requestPasswordReset" =>
     ("devOnly_resetToken" \notin resp.res.fields /\ resp.res.dev = 0)

\* ---------------------------------------------------------------- OrganizationService
Slugs == {"acme", "beta"}
\* (no unique index on slug: a lookup by slug never finds a row)
OrgBySlug_none(slug) == {}
OrgBySlug(slug) == {o \in Organization : o.slug = slug}
OrgCreators == {r \in Slots : reqs[r].op \in {"createOrganization", "createOrganizationAtomic"}}
\* one more request that creates an organization stays within limit rows
OrgBudget(limit) == nextOrgId + Cardinality(OrgCreators) <= limit
\* the persistence layer failing for a reason of its own (connection, timeout)
QueryFailed == [kind |-> "Error", statusCode |-> 0, message |-> "query failed", code |-> ""]
\* the keys of an organization row read with include: { owner }
organizationKeys ==
  {"id", "name", "slug", "logo", "plan", "status", "maxUsers", "maxProjects", "maxStorage",
   "ownerId", "createdAt", "updatedAt", "owner"}
\* the rows the two writes of createOrganization insert
OrganizationRow(id, slug, userId) ==
  [id |-> id, slug |-> slug, name |-> "Org", ownerId |-> userId, status |-> "ACTIVE"]
OwnerMemberRow(userId, organizationId) ==
  [userId |-> userId, organizationId |-> organizationId, role |-> "OWNER", status |-> "ACTIVE"]

\* createOrganization (organization.service.ts): look the slug up
createOrganization(r, userId, slug) ==
  /\ Free(r)
  /\ LET q == [Blank EXCEPT !.op = "createOrganization", !.uid = userId, !.slug = slug]
     IN  IF OrgBySlug(slug) # {}
           THEN /\ resp' = Thrown(q, conflict("Organization slug already exists"))
                /\ UNCHANGED reqs
           ELSE /\ reqs' = [reqs EXCEPT ![r] = [q EXCEPT !.pc = "create"]]
                /\ UNCHANGED resp
  /\ UNCHANGED <<now, config, tables, orgTables, counters, history>>

\* createOrganization: prisma.organization.create (slug is unique)
createOrganization_create(r) ==
  /\ At(r, "createOrganization", "create")
  /\ IF OrgBySlug(reqs[r].slug) # {}
       THEN /\ resp' = Thrown(reqs[r], PrismaError("P2002"))
            /\ reqs' = [reqs EXCEPT ![r] = Blank]
            /\ UNCHANGED <<Organization, nextOrgId>>
       ELSE /\ Organization' = Organization \cup
                 {OrganizationRow(nextOrgId, reqs[r].slug, reqs[r].uid)}
            /\ nextOrgId' = nextOrgId + 1
            /\ reqs' = [reqs EXCEPT ![r] = [@ EXCEPT !.pc = "createMember", !.row = nextOrgId]]
            /\ UNCHANGED resp
  /\ UNCHANGED <<now, config, tables, OrganizationMember, nextTokenId, nextRaw, history>>

\* createOrganization: prisma.organizationMember.create, then the 201 response;
\* when the write fails the error goes to errorHandler and nothing is undone
createOrganization_createMember(r, fails) ==
  /\ At(r, "createOrganization", "createMember")
  /\ IF fails
       THEN /\ resp' = Thrown(reqs[r], QueryFailed)
            /\ UNCHANGED OrganizationMember
       ELSE /\ OrganizationMember' = OrganizationMember \cup
                 {OwnerMemberRow(reqs[r].uid, reqs[r].row)}
            /\ resp' = Reply(reqs[r], success(201, "Organization created successfully",
                                              organizationKeys, "", NoTok, 0))
  /\ reqs' = [reqs EXCEPT ![r] = Blank]
  /\ UNCHANGED <<now, config, tables, Organization, counters, history>>

\* createOrganization (the copy of the service in organization.routes.ts): look the slug up
createOrganizationAtomic(r, userId, slug) ==
  /\ Free(r)
  /\ LET q == [Blank EXCEPT !.op = "createOrganizationAtomic", !.uid = userId, !.slug = slug]
     IN  IF OrgBySlug(slug) # {}
           THEN /\ resp' = Thrown(q, conflict("Slug \"" \o slug \o
                                                  "\" is already taken. Please choose a different slug."))
                /\ UNCHANGED reqs
           ELSE /\ reqs' = [reqs EXCEPT ![r] = [q EXCEPT !.pc = "transaction"]]
                /\ UNCHANGED resp
  /\ UNCHANGED <<now, config, tables, orgTables, counters, history>>

\* createOrganization: prisma.$transaction, both rows or neither, then the 201 response
createOrganizationAtomic_transaction(r, fails) ==
  /\ At(r, "createOrganizationAtomic", "transaction")
  /\ IF OrgBySlug(reqs[r].slug) # {}
       THEN /\ resp' = Thrown(reqs[r], PrismaError("P2002"))
            /\ UNCHANGED <<orgTables, nextOrgId>>
       ELSE IF fails
       THEN /\ resp' = Thrown(reqs[r], QueryFailed)
            /\ UNCHANGED <<orgTables, nextOrgId>>
       ELSE /\ Organization' = Organization \cup
                 {OrganizationRow(nextOrgId, reqs[r].slug, reqs[r].uid)}
            /\ OrganizationMember' = OrganizationMember \cup
                 {OwnerMemberRow(reqs[r].uid, nextOrgId)}
            /\ nextOrgId' = nextOrgId + 1
            /\ resp' = Reply(reqs[r], success(201, "Organization created successfully",
                                              organizationKeys, "", NoTok, 0))
  /\ reqs' = [reqs EXCEPT ![r] = Blank]
  /\ UNCHANGED <<now, config, tables, nextTokenId, nextRaw, history>>

NextOrganization ==
  \E r \in Slots :
    \/ \E e \in Emails : TokenBudget(MaxLogins) /\ register(r, e, "Abc12345!")
    \/ register_create(r)
    \/ register_generateTokens(r)
    \/ \E u \in UserIds, s \in Slugs : OrgBudget(MaxOrgs) /\ createOrganization(r, u, s)
    \/ createOrganization_create(r)
    \/ \E fails \in BOOLEAN : createOrganization_createMember(r, fails)
SpecOrganization == Start /\ [][NextOrganization]_vars

NextOrganizationAtomic ==
  \E r \in Slots :
    \/ \E e \in Emails : TokenBudget(MaxLogins) /\ register(r, e, "Abc12345!")
    \/ register_create(r)
    \/ register_generateTokens(r)
    \/ \E u \in UserIds, s \in Slugs : OrgBudget(MaxOrgs) /\ createOrganizationAtomic(r, u, s)
    \/ \E fails \in BOOLEAN : createOrganizationAtomic_transaction(r, fails)
SpecOrganizationAtomic == Start /\ [][NextOrganizationAtomic]_vars

\* C10: in every state, an Organization row exists if and only if the
\* OrganizationMember row of its creator in it, role OWNER and status ACTIVE, exists.
C10_OrganizationIffOwnerMember ==
  /\ \A o \in Organization : OwnerMemberRow(o.ownerId, o.id) \in OrganizationMember
  /\ \A m \in OrganizationMember :
       m.role = "OWNER" => \E o \in Organization : o.id = m.organizationId /\ o.ownerId = m.userId

\* ---------------------------------------------------------------- organization update and delete
\* a PATCH body: the value sent for each column; "" or 0 for a key not sent
NoBody == [name |-> "", slug |-> "", ownerId |-> 0, status |-> ""]
Keys(body) == {k \in DOMAIN body : body[k] # NoBody[k]}
\* updateOrganizationSchema: z.object keeps the keys it declares (name, logo; no
\* request of the model sends a logo), ignores the others, and the refinement
\* asks for at least one key among those kept
updateOrganizationSchema(body) == (Keys(body) \cap {"name", "logo"}) # {}
\* validate(schema): the 400 response when the schema rejects the request
ValidationFailed ==
  [NoRes EXCEPT !.status = 400, !.message = "Validation failed", !.errors = TRUE]
\* prisma.organization.update({ where: { id }, data }): every key of data is written
applyData(o, data) == [k \in DOMAIN o |-> IF k \in Keys(data) THEN data[k] ELSE o[k]]
OrgById(id) == {o \in Organization : o.id = id}
Roles == {"OWNER", "ADMIN", "MEMBER", "GUEST"}
\* the arrays of roles a caller of verifyRole may pass: any order, repeats kept
RoleArrays == UNION {[1..k -> Roles] : k \in 0..2}

\* (a membership lookup that forgets the status)
findActiveMember_anyStatus(userId, organizationId, members) ==
  {m \in members : m.userId = userId /\ m.organizationId = organizationId}
\* organizationMember.findFirst on userId, organizationId and status ACTIVE
findActiveMember(userId, organizationId, members) ==
  {m \in members : /\ m.userId = userId /\ m.organizationId = organizationId
                   /\ m.status = "ACTIVE"}
\* verifyActiveMember: the error thrown, NoErr when a row is found
verifyActiveMember(userId, organizationId, members) ==
  IF findActiveMember(userId, organizationId, members) = {}
    THEN forbidden("You do not have access to this organization") ELSE NoErr
\* array.join(separator)
RECURSIVE join(_, _)
join(array, separator) ==
  IF array = <<>> THEN ""
  ELSE IF Len(array) = 1 THEN array[1]
  ELSE array[1] \o separator \o join(Tail(array), separator)
\* the message of verifyRole names the roles asked for, as given, and the caller's role
AccessDenied(roles, role) ==
  forbidden("Access denied. Required role: " \o join(roles, " or ") \o
            ". Your role: " \o role)
\* verifyRole: verifyActiveMember, then roles.includes(member.role)
verifyRole(userId, organizationId, roles, members) ==
  IF verifyActiveMember(userId, organizationId, members) # NoErr
    THEN verifyActiveMember(userId, organizationId, members)
  ELSE LET member == CHOOSE m \in findActiveMember(userId, organizationId, members) : TRUE
       IN  IF ~(\E i \in DOMAIN roles : roles[i] = member.role) THEN AccessDenied(roles, member.role) ELSE NoErr

\* updateOrganization: validate(updateOrganizationSchema), then findUnique by id
updateOrganization(r, id, userId, data) ==
  /\ Free(r)
  /\ LET q == [Blank EXCEPT !.op = "updateOrganization", !.uid = userId, !.row = id,
                            !.data = data]
     IN  IF ~updateOrganizationSchema(data)
           THEN /\ resp' = Reply(q, ValidationFailed)
                /\ UNCHANGED reqs
         ELSE IF OrgById(id) = {}
           THEN /\ resp' = Thrown(q, notFound("Organization not found"))
                /\ UNCHANGED reqs
         ELSE /\ reqs' = [reqs EXCEPT ![r] = [q EXCEPT !.pc = "verifyRole"]]
              /\ UNCHANGED resp
  /\ UNCHANGED <<now, config, tables, orgTables, counters, history>>

\* updateOrganization: verifyRole(userId, id, ['OWNER', 'ADMIN'])
updateOrganization_verifyRole(r) ==
  /\ At(r, "updateOrganization", "verifyRole")
  /\ LET err == verifyRole(reqs[r].uid, reqs[r].row, <<"OWNER", "ADMIN">>, OrganizationMember)
     IN  IF err # NoErr
           THEN /\ resp' = Thrown(reqs[r], err)
                /\ reqs' = [reqs EXCEPT ![r] = Blank]
           ELSE /\ reqs' = [reqs EXCEPT ![r] = [@ EXCEPT !.pc = "update"]]
                /\ UNCHANGED resp
  /\ UNCHANGED <<now, config, tables, orgTables, counters, history>>

\* updateOrganization: prisma.organization.update with the request body as data
\* (slug is unique), then the 200 response
updateOrganization_update(r) ==
  /\ At(r, "updateOrganization", "update")
  /\ LET old == CHOOSE o \in OrgById(reqs[r].row) : TRUE
         new == applyData(old, reqs[r].data)
     IN  IF \E o \in Organization : o.id # old.id /\ o.slug = new.slug
           THEN /\ resp' = Thrown(reqs[r], PrismaError("P2002"))
                /\ UNCHANGED Organization
           ELSE /\ Organization' = (Organization \ {old}) \cup {new}
                /\ resp' = Reply(reqs[r], success(200, "Organization updated successfully",
                                                  organizationKeys, "", NoTok, 0))
  /\ reqs' = [reqs EXCEPT ![r] = Blank]
  /\ UNCHANGED <<now, config, tables, OrganizationMember, counters, history>>

\* deleteOrganization: findUnique by id, then the owner test
deleteOrganization(r, id, userId) ==
  /\ Free(r)
  /\ LET q == [Blank EXCEPT !.op = "deleteOrganization", !.uid = userId, !.row = id]
     IN  IF OrgById(id) = {}
           THEN /\ resp' = Thrown(q, notFound("Organization not found"))
                /\ UNCHANGED reqs
         ELSE IF (CHOOSE o \in OrgById(id) : TRUE).ownerId # userId
           THEN /\ resp' = Thrown(q, forbidden("Only the organization owner can delete the organization"))
                /\ UNCHANGED reqs
         ELSE /\ reqs' = [reqs EXCEPT ![r] = [q EXCEPT !.pc = "update"]]
              /\ UNCHANGED resp
  /\ UNCHANGED <<now, config, tables, orgTables, counters, history>>

\* prisma.organization.update({ where: { id }, data: { status: CANCELED } })
softDelete(rows, id) ==
  {IF o.id = id THEN [o EXCEPT !.status = "CANCELED"] ELSE o : o \in rows}

\* deleteOrganization: the status update, then the 200 response
deleteOrganization_update(r) ==
  /\ At(r, "deleteOrganization", "update")
  /\ Organization' = softDelete(Organization, reqs[r].row)
  /\ resp' = Reply(reqs[r], success(200, "Organization deleted successfully",
                                    {"message"}, "Organization deleted successfully", NoTok, 0))
  /\ reqs' = [reqs EXCEPT ![r] = Blank]
  /\ UNCHANGED <<now, config, tables, OrganizationMember, counters, history>>

\* ---------------------------------------------------------------- membership by invitation
InvitedRoles == {"ADMIN", "MEMBER", "GUEST"}
\* the membership rows of a user in an organization, whatever their status
MemberRows(userId, organizationId) ==
  {m \in OrganizationMember : m.userId = userId /\ m.organizationId = organizationId}
\* a user joins an organization by accepting an invitation: one row per
\* (user, organization) pair, role as invited, status ACTIVE
acceptInvitation(userId, organizationId, role) ==
  /\ UserById(userId) # {} /\ OrgById(organizationId) # {}
  /\ MemberRows(userId, organizationId) = {}
  /\ OrganizationMember' = OrganizationMember \cup
       {[userId |-> userId, organizationId |-> organizationId, role |-> role,
         status |-> "ACTIVE"]}
  /\ UNCHANGED <<now, config, tables, Organization, counters, reqs, resp, history>>
\* an admin action changes the status of a membership that is not the owner's
setMemberStatus(userId, organizationId, status) ==
  /\ \E m \in MemberRows(userId, organizationId) :
       /\ m.role # "OWNER" /\ m.status # status
       /\ OrganizationMember' = (OrganizationMember \ {m}) \cup {[m EXCEPT !.status = status]}
  /\ UNCHANGED <<now, config, tables, Organization, counters, reqs, resp, history>>

\* the bodies a client sends with PATCH /organizations/:id
Payloads ==
  {[NoBody EXCEPT !.name = "Renamed"],
   [NoBody EXCEPT !.slug = "beta"],
   [NoBody EXCEPT !.name = "Renamed", !.slug = "beta"]}
  \cup {[NoBody EXCEPT !.name = "Renamed", !.ownerId = u] : u \in {x.id : x \in User}}
OrgIds == 1..MaxTenants

NextTenant ==
  \/ \E r \in Slots :
       \/ \E e \in Emails : TokenBudget(MaxLogins) /\ register(r, e, "Abc12345!")
       \/ register_create(r)
       \/ register_generateTokens(r)
       \/ \E u \in UserIds : OrgBudget(MaxTenants) /\ createOrganizationAtomic(r, u, "acme")
       \/ createOrganizationAtomic_transaction(r, FALSE)
       \/ \E id \in OrgIds, u \in UserIds : \E data \in Payloads : updateOrganization(r, id, u, data)
       \/ updateOrganization_verifyRole(r)
       \/ updateOrganization_update(r)
       \/ \E id \in OrgIds, u \in UserIds : deleteOrganization(r, id, u)
       \/ deleteOrganization_update(r)
  \/ \E u \in UserIds, id \in OrgIds, role \in InvitedRoles :
       /\ Cardinality({m \in OrganizationMember : m.role # "OWNER"}) < MaxInvites
       /\ acceptInvitation(u, id, role)
  \/ \E u \in UserIds, id \in OrgIds, st \in {"ACTIVE", "SUSPENDED"} : setMemberStatus(u, id, st)
SpecTenant == Start /\ [][NextTenant]_vars

\* the role checks alone: members come and go, updates rename
NextRole ==
  \/ \E r \in Slots :
       \/ \E e \in Emails : TokenBudget(MaxLogins) /\ register(r, e, "Abc12345!")
       \/ register_create(r)
       \/ register_generateTokens(r)
       \/ \E u \in UserIds, s \in Slugs : OrgBudget(MaxTenants) /\ createOrganizationAtomic(r, u, s)
       \/ createOrganizationAtomic_transaction(r, FALSE)
       \/ \E id \in OrgIds, u \in UserIds :
            updateOrganization(r, id, u, [NoBody EXCEPT !.name = "Renamed"])
       \/ updateOrganization_verifyRole(r)
       \/ updateOrganization_update(r)
  \/ \E u \in UserIds, id \in OrgIds, role \in InvitedRoles :
       /\ Cardinality({m \in OrganizationMember : m.role # "OWNER"}) < MaxInvites
       /\ acceptInvitation(u, id, role)
  \/ \E u \in UserIds, id \in OrgIds, st \in {"ACTIVE", "SUSPENDED"} : setMemberStatus(u, id, st)
SpecRole == Start /\ [][NextRole]_vars

\* C11: no step changes the slug stored for an organization id.
C11_SlugImmutable ==
  [][\A o \in Organization : \A n \in Organization' : n.id = o.id => n.slug = o.slug]_vars

\* the user holds an ACTIVE membership of the organization with this role
HasRole(userId, organizationId, role) ==
  \E m \in MemberRows(userId, organizationId) : m.role = role /\ m.status = "ACTIVE"

\* C12: a deleteOrganization call by a user whose role in the organization is
\* ADMIN is answered 403 and changes no table; a call by the user whose role is
\* OWNER is let through, and its write leaves every row in place, the
\* organization's row with status CANCELED.
C12_DeleteOwnerOnly ==
  [][/\ \A r \in Slots, id \in OrgIds, u \in UserIds :
          deleteOrganization(r, id, u) =>
            /\ HasRole(u, id, "ADMIN") =>
                 (resp'.op = "deleteOrganization" /\ resp'.res.status = 403
                    /\ reqs' = reqs /\ orgTables' = orgTables)
            /\ HasRole(u, id, "OWNER") => reqs'[r].pc = "update"
     /\ \A r \in Slots : deleteOrganization_update(r) =>
          /\ {o.id : o \in Organization'} = {o.id : o \in Organization}
          /\ \A o \in Organization' : o.id = reqs[r].row => o.status = "CANCELED"
          /\ OrganizationMember' = OrganizationMember
          /\ resp'.res.status = 200]_vars

\* C13: verifyRole(user, org, roles) raises no error exactly when the user has
\* an ACTIVE membership of org whose role is in roles, and raises a 403 error
\* otherwise, for every user, organization and array of roles (any order, repeats kept).
C13_VerifyRoleExact ==
  \A u \in UserIds, id \in OrgIds, roles \in RoleArrays :
     LET err == verifyRole(u, id, roles, OrganizationMember)
     IN  IF \E m \in OrganizationMember :
              /\ m.userId = u /\ m.organizationId = id /\ m.status = "ACTIVE"
              /\ m.role \in {roles[i] : i \in DOMAIN roles}
           THEN err = NoErr
           ELSE err.kind = "ApiError" /\ err.statusCode = 403

\* updateOrganization has refused a member through verifyRole, an ACTIVE ADMIN
\* is refused where only OWNER is allowed and let through where ADMIN is, and
\* the owner is let through
C13_Witness ==
  /\ resp.op = "updateOrganization" /\ resp.res.status = 403
  /\ \E m \in OrganizationMember :
       /\ m.role = "ADMIN" /\ m.status = "ACTIVE"
       /\ verifyRole(m.userId, m.organizationId, <<"OWNER">>, OrganizationMember).statusCode = 403
       /\ verifyRole(m.userId, m.organizationId, <<"ADMIN", "OWNER">>, OrganizationMember) = NoErr
  /\ \E m \in OrganizationMember :
       m.role = "OWNER" /\ verifyRole(m.userId, m.organizationId, <<"OWNER">>, OrganizationMember) = NoErr

\* ---------------------------------------------------------------- request validation of emails
\* the emails clients send: the same address in two spellings
RawEmails == {"alice@x.com", "Alice@X.com"}
\* String.prototype.toLowerCase on the emails of the model
toLowerCase(email) == IF email = "Alice@X.com" THEN "alice@x.com" ELSE email
\* emailSchema: the parsed output of z.string().email().toLowerCase()
emailSchema(email) == toLowerCase(email)
\* validate(schema): schema.parseAsync is awaited for its errors only; its
\* output is dropped and the handler reads req.body as the client sent it
validate(body, parsed) == body

NextEmailCase ==
  \/ Tick
  \/ \E r \in Slots :
       \/ \E e \in RawEmails :
            TokenBudget(MaxLogins) /\ register(r, validate(e, emailSchema(e)), "Abc12345!")
       \/ register_create(r)
       \/ register_generateTokens(r)
       \/ \E e \in RawEmails :
            TokenBudget(MaxLogins) /\ login(r, validate(e, emailSchema(e)), "Abc12345!")
       \/ login_compare(r)
       \/ login_update(r)
       \/ login_generateTokens(r)
SpecEmailCase == Start /\ [][NextEmailCase]_vars

\* C14: the User table never holds two rows whose emails are equal after case
\* normalization.
C14_EmailUniqueNormalized ==
  \A u1, u2 \in User : toLowerCase(u1.email) = toLowerCase(u2.email) => u1 = u2

\* ---------------------------------------------------------------- reset requests in succession
\* forgot-password requests come one after the other; resets run beside them
NextForgotTwice ==
  \/ Tick
  \/ \E r \in Slots :
       \/ TokenBudget(MaxLogins) /\ register(r, "alice@x.com", "Abc12345!")
       \/ register_create(r)
       \/ register_generateTokens(r)
       \/ \E e \in Emails :
            /\ nextRaw <= MaxResets + 1
            /\ \A o \in Slots : reqs[o].op # "requestPasswordReset"
            /\ requestPasswordReset(r, e)
       \/ requestPasswordReset_deleteMany(r)
       \/ requestPasswordReset_create(r)
       \/ \E t \in mailed : resetPassword(r, t, "Xyz98765!")
       \/ resetPassword_update(r)
       \/ resetPassword_markUsed(r)
       \/ resetPassword_deleteMany(r)
SpecForgotTwice == Start /\ [][NextForgotTwice]_vars

\* C15: when a requestPasswordReset call made after the calls before it have
\* returned stores its row, that row is the only PasswordResetToken row of the
\* user, and the digest of no raw token mailed earlier matches any row.
C15_SecondRequestReplacesFirst ==
  [][\A r \in Slots :
       At(r, "requestPasswordReset", "create") /\ reqs'[r].pc = "idle" =>
         /\ {p.tokenHash : p \in {x \in PasswordResetToken' : x.userId = reqs[r].uid}}
               = {hashResetToken(reqs[r].raw)}
         /\ Cardinality({x \in PasswordResetToken' : x.userId = reqs[r].uid}) = 1
         /\ \A k \in mailed :
              {x \in PasswordResetToken' : x.tokenHash = hashResetToken(k)} = {}]_vars

\* a second request has been answered: two raw tokens were mailed and the first
\* one's digest matches no row
C15_Witness ==
  /\ Cardinality(mailed) >= 2
  /\ resp.op = "requestPasswordReset" /\ resp.res.dev = 2
  /\ ResetRows(hashResetToken(1)) = {}
  /\ ResetRows(hashResetToken(2)) # {}

\* ---------------------------------------------------------------- the ledger across a refresh
\* the ledger rows of a user
RowsOf(rows, userId) == {t \in rows : t.userId = userId}

\* C16: the two writes of a refreshToken call that returns 200 replace exactly
\* one ledger row of the user by exactly one new row: the first adds one row,
\* the row of the token the call returns, and nothing else; the second removes
\* the row of the token presented and nothing else, so that the user's rows are
\* as many after the two writes as before them, the old row is absent and the
\* new one present.
C16_RefreshReplacesOneRow ==
  [][\A r \in Slots :
       /\ (At(r, "refreshToken", "generateTokens") /\ reqs'[r].pc = "delete") =>
            /\ \E row \in RefreshToken' \ RefreshToken :
                 /\ RefreshToken' = RefreshToken \cup {row}
                 /\ row.userId = reqs[r].uid /\ row.token = reqs'[r].out
            /\ Cardinality(RowsOf(RefreshToken', reqs[r].uid))
                 = Cardinality(RowsOf(RefreshToken, reqs[r].uid)) + 1
       /\ RefreshReturns(r) =>
            /\ \E old \in RefreshToken :
                 /\ old.token = reqs[r].tok /\ old.userId = reqs[r].uid
                 /\ RefreshToken' = RefreshToken \ {old}
            /\ Cardinality(RowsOf(RefreshToken', reqs[r].uid))
                 = Cardinality(RowsOf(RefreshToken, reqs[r].uid)) - 1
            /\ TokenRows(reqs[r].tok)' = {}
            /\ \E new \in RefreshToken' :
                 new.token = resp'.res.token /\ new.userId = reqs[r].uid]_vars

\* a refresh has returned 200: the row of the token presented is gone and the
\* row of the token returned is in the ledger
C16_Witness ==
  /\ resp.op = "refreshToken" /\ resp.res.status = 200
  /\ TokenRows(resp.tok) = {}
  /\ TokenRows(resp.res.token) # {}
  /\ resp.res.token \in minted

\* ---------------------------------------------------------------- logout
\* what clients send as refreshToken with a logout: a token they were handed,
\* nothing, the empty string, a token this server never issued
LogoutTokens == issued \cup {NoTok, EmptyTok, Forged}
\* the bodies of POST /auth/logout: none at all, or JSON with or without a
\* refreshToken
LogoutBodies == {undefinedBody} \cup {jsonBody(t, 0) : t \in LogoutTokens}
NextLogout ==
  \E r \in Slots :
    \/ \E e \in Emails : TokenBudget(MaxTokens) /\ register(r, e, "Abc12345!")
    \/ register_create(r)
    \/ register_generateTokens(r)
    \/ \E t \in issued :
         /\ TokenBudget(MaxTokens) \/ TokenRows(t) = {}
         /\ refreshToken(r, t)
    \/ refreshToken_findUnique(r)
    \/ refreshToken_generateTokens(r)
    \/ refreshToken_delete(r)
    \/ \E u \in UserIds, b \in LogoutBodies : logout(r, u, b)
SpecLogout == Start /\ [][NextLogout]_vars

\* C17: a logout call with a token deletes exactly the ledger rows owned by the
\* caller whose token is the one supplied; a logout call with no token (no
\* body sent, a body without refreshToken, or the empty string) deletes exactly
\* the caller's rows; either way no row of another user is deleted and no other
\* table changes.
C17_LogoutFrame ==
  [][\A r \in Slots, u \in UserIds, b \in LogoutBodies :
       logout(r, u, b) =>
         /\ RefreshToken' \subseteq RefreshToken
         /\ RefreshToken \ RefreshToken' =
              IF b.refreshToken \in {NoTok, EmptyTok} THEN RowsOf(RefreshToken, u)
              ELSE {x \in RowsOf(RefreshToken, u) : x.token = b.refreshToken}
         /\ \A x \in RefreshToken : x.userId # u => x \in RefreshToken'
         /\ <<User, PasswordResetToken, orgTables>>' = <<User, PasswordResetToken, orgTables>>]_vars

\* C18: a logout call with a token that has no ledger row of the caller is
\* answered 200 and leaves every table as it was; and after every logout call,
\* whatever it was sent, the same call made again would leave every table as
\* the first call left it.
C18_LogoutIdempotent ==
  /\ [][\A r \in Slots, u \in UserIds, t \in LogoutTokens \ {NoTok, EmptyTok} :
          (/\ logout(r, u, jsonBody(t, 0))
           /\ {x \in RowsOf(RefreshToken, u) : x.token = t} = {}) =>
             /\ <<tables, orgTables>>' = <<tables, orgTables>>
             /\ resp'.op = "logout" /\ resp'.res.status = 200]_vars
  /\ [][\A r \in Slots, u \in UserIds, b \in LogoutBodies :
          logout(r, u, b) =>
            (/\ ENABLED logout(r, u, b)
             /\ ~ENABLED (logout(r, u, b)
                           /\ <<tables, orgTables>>' # <<tables, orgTables>>))']_vars

\* a logout presenting a token that a refresh had rotated away has been
\* answered 200 while the caller still holds a row
C18_Witness ==
  /\ resp.op = "logout" /\ resp.tok \in consumed /\ resp.res.status = 200
  /\ resp.tok.userId = resp.uid
  /\ Cardinality(RowsOf(RefreshToken, resp.uid)) >= 1

\* ---------------------------------------------------------------- registration and the stored hash
\* a password of 72 characters that meets the password policy, and two longer
\* ones that begin with it
Long72 == "Abc12345!xxxxxxxxxxxxxxxxxxxxxxxxxxxxxxxxxxxxxxxxxxxxxxxxxxxxxxxxxxxxxxx"
LongPasswords == {Long72 \o "A", Long72 \o "B"}
RegisterPasswords == Passwords \cup {Long72} \cup LongPasswords

NextRegister ==
  \E r \in Slots :
    \/ \E e \in Emails, p \in RegisterPasswords : TokenBudget(MaxLogins) /\ register(r, e, p)
    \/ register_create(r)
    \/ register_generateTokens(r)
    \/ \E e \in Emails, p \in RegisterPasswords : TokenBudget(MaxLogins) /\ login(r, e, p)
    \/ login_compare(r)
    \/ login_update(r)
    \/ login_generateTokens(r)
SpecRegister == Start /\ [][NextRegister]_vars

\* C19: the response of a successful register has no password among the
\* user's fields, and the row register stores holds a password that is not the
\* one submitted, that compare accepts for the one submitted and that compare
\* accepts for no other string.
C19_RegisterStoresHash ==
  /\ [](resp.op = "register" /\ resp.res.status = 201 =>
          "user.password" \notin resp.res.fields /\ "password" \notin resp.res.fields)
  /\ [][\A r \in Slots :
          (At(r, "register", "create") /\ reqs'[r].pc = "generateTokens") =>
             \E u \in User' \ User :
                /\ u.email = reqs[r].email
                /\ u.password # reqs[r].pw
                /\ compare(reqs[r].pw, u.password)
                /\ \A other \in RegisterPasswords \ {reqs[r].pw} :
                     ~compare(other, u.password)]_vars

\* ---------------------------------------------------------------- token issuance
NextIssue ==
  \/ Tick
  \/ \E r \in Slots :
       \/ TokenBudget(MaxTokens) /\ register(r, "alice@x.com", "Abc12345!")
       \/ register_create(r)
       \/ register_generateTokens(r)
       \/ TokenBudget(MaxTokens) /\ login(r, "alice@x.com", "Abc12345!")
       \/ login_compare(r)
       \/ login_update(r)
       \/ login_generateTokens(r)
       \/ \E t \in issued :
            /\ TokenBudget(MaxTokens) \/ TokenRows(t) = {}
            /\ refreshToken(r, t)
       \/ refreshToken_findUnique(r)
       \/ refreshToken_deleteExpired(r)
       \/ refreshToken_generateTokens(r)
       \/ refreshToken_delete(r)
SpecIssue == Start /\ [][NextIssue]_vars

\* the step by which request r returns a token pair
IssueReturns(r) ==
  /\ \/ At(r, "register", "generateTokens")
     \/ At(r, "login", "generateTokens")
     \/ RefreshReturns(r)
  /\ reqs'[r].pc = "idle"
  /\ resp'.res.status \in {200, 201}

\* C20: the refresh token a register, login or refreshToken call returns
\* differs from every refresh token returned before, and a refreshToken call
\* with a token that a refresh already consumed is answered 401.
C20_IssuedTokensDistinct ==
  /\ [][\A r \in Slots : IssueReturns(r) =>
          /\ resp'.res.token \notin issued
          /\ resp'.res.token \in issued'
          /\ resp'.res.token # NoTok]_vars
  /\ [](resp.op = "refreshToken" /\ resp.tok \in consumed /\ resp.stale
          => resp.res.status = 401)

\* register, login and a refresh of the login's token have returned three
\* tokens, and the login's token presented again has been answered 401
C20_Witness ==
  /\ Cardinality(issued) = 3
  /\ \E a, b, c \in issued :
       /\ a.tokenId < b.tokenId /\ b.tokenId < c.tokenId
       /\ b \in consumed /\ c \in minted /\ a \notin minted
       /\ resp.op = "refreshToken" /\ resp.tok = b /\ resp.res.status = 401
\* ---------------------------------------------------------------- error responses
\* what a handler may throw: the ApiError factories, and errors of other classes
Factories == {"badRequest", "unauthorized", "forbidden", "notFound", "conflict", "internal"}
ApiMessages == {"Invalid input", "Not allowed here"}
ErrorMessages == {"", "connect ECONNREFUSED 10.0.0.5:5432"}
PrismaCodes == {"P2002", "P2025", "P2003"}
ZodError == [kind |-> "ZodError", statusCode |-> 0, message |-> "zod issues", code |-> ""]
PlainError(message) == [kind |-> "Error", statusCode |-> 0, message |-> message, code |-> ""]
make(factory, message) ==
  CASE factory = "badRequest" -> badRequest(message)
    [] factory = "unauthorized" -> unauthorized(message)
    [] factory = "forbidden" -> forbidden(message)
    [] factory = "notFound" -> notFound(message)
    [] factory = "conflict" -> conflict(message)
    [] factory = "internal" -> internal(message)
Throwables ==
  [why : Factories, message : ApiMessages]
    \cup [why : {"Error"}, message : ErrorMessages]
    \cup [why : {"ZodError"}, message : {"zod issues"}]
    \cup [why : PrismaCodes, message : {"prisma"}]
thrown(t) ==
  IF t.why \in Factories THEN make(t.why, t.message)
  ELSE IF t.why = "Error" THEN PlainError(t.message)
  ELSE IF t.why = "ZodError" THEN ZodError
  ELSE PrismaError(t.why)

\* BaseController.asyncHandler: the handler rejects and the error goes to next
asyncHandler(r, t) ==
  /\ Free(r)
  /\ reqs' = [reqs EXCEPT ![r] = [Blank EXCEPT !.op = "handler", !.pc = "next",
                                               !.why = t.why, !.err = thrown(t)]]
  /\ UNCHANGED <<now, config, tables, orgTables, counters, resp, history>>

\* notFoundHandler: no route matched
notFoundHandler(r, originalUrl) ==
  /\ Free(r)
  /\ reqs' = [reqs EXCEPT ![r] = [Blank EXCEPT !.op = "notFoundHandler", !.pc = "next",
                                               !.why = "notFound",
                                               !.err = notFound("Route " \o originalUrl \o
                                                                " not found")]]
  /\ UNCHANGED <<now, config, tables, orgTables, counters, resp, history>>

\* the errorHandler middleware answers the request
errorMiddleware(r) ==
  /\ reqs[r].pc = "next"
  /\ resp' = Thrown(reqs[r], reqs[r].err)
  /\ reqs' = [reqs EXCEPT ![r] = Blank]
  /\ UNCHANGED <<now, config, tables, orgTables, counters, history>>

NextErrors ==
  \E r \in Slots :
    \/ \E t \in Throwables : asyncHandler(r, t)
    \/ \E originalUrl \in {"/api/v1/nope", "/favicon.ico"} : notFoundHandler(r, originalUrl)
    \/ errorMiddleware(r)
SpecErrors == Start /\ [][NextErrors]_vars

\* C21: in production the response to a failure that is not an ApiError has no
\* stack and does not carry the message of the error that was thrown.
C21_NoInternalDetailInProduction ==
  [][\A r \in Slots :
       (errorMiddleware(r) /\ nodeEnv = "production" /\ reqs[r].err.kind # "ApiError") =>
          /\ ~resp'.res.stack
          /\ resp'.res.message # reqs[r].err.message]_vars

\* the status each ApiError factory stands for
StatusOf ==
  [badRequest |-> 400, unauthorized |-> 401, forbidden |-> 403, notFound |-> 404,
   conflict |-> 409]

\* C22: an error built by badRequest, unauthorized, forbidden, notFound or
\* conflict is answered with 400, 401, 403, 404 or 409 and the envelope
\* success:false with the error's message; an error that is not an ApiError,
\* not a validation error and not a persistence error with code P2002 or P2025
\* is answered with 500 and the envelope success:false with a message.
C22_FixedStatusAndEnvelope ==
  [][\A r \in Slots : errorMiddleware(r) =>
       /\ ~resp'.res.ok
       /\ resp'.res.message # ""
       /\ reqs[r].why \in DOMAIN StatusOf =>
            /\ resp'.res.status = StatusOf[reqs[r].why]
            /\ resp'.res.message = reqs[r].err.message
       /\ (reqs[r].why = "Error" \/ reqs[r].why = "P2003") =>
            resp'.res.status = 500]_vars
C22_Witness ==
  /\ resp.why = "conflict" /\ resp.res.status = 409
  /\ \E r \in Slots : reqs[r].pc = "next" /\ reqs[r].why = "Error"

\* ---------------------------------------------------------------- token service
\* export default new JwtUtil(): the module is loaded with the configured values
JwtUtil_new(jwtSecret, jwtRefreshSecret, jwtExpiresIn, refreshExpiresIn) ==
  /\ jwtUtil.state = "unloaded"
  /\ jwtUtil' = constructor(nodeEnv, jwtSecret, jwtRefreshSecret, jwtExpiresIn,
                            refreshExpiresIn)
  /\ UNCHANGED <<now, nodeEnv, expiresIn, tables, orgTables, counters, reqs, resp, history>>

\* (parseExpiry throws on an expiry that is undefined: nothing is returned)
getAccessTokenExpiry ==
  /\ jwtUtil.state = "ready"
  /\ expiresIn' = IF jwtUtil.accessTokenExpiry = undefinedExpiry THEN expiresIn
                  ELSE [expiry |-> jwtUtil.accessTokenExpiry,
                        seconds |-> parseExpiry(jwtUtil.accessTokenExpiry)]
  /\ UNCHANGED <<now, nodeEnv, jwtUtil, tables, orgTables, counters, reqs, resp, history>>

getRefreshTokenExpiry ==
  /\ jwtUtil.state = "ready"
  /\ expiresIn' = IF jwtUtil.refreshTokenExpiry = undefinedExpiry THEN expiresIn
                  ELSE [expiry |-> jwtUtil.refreshTokenExpiry,
                        seconds |-> parseExpiry(jwtUtil.refreshTokenExpiry)]
  /\ UNCHANGED <<now, nodeEnv, jwtUtil, tables, orgTables, counters, reqs, resp, history>>

NextJwt ==
  \/ /\ jwtUtil.state = "unloaded"
     /\ \E a, b \in Secrets : \E e \in Expiries : \E f \in RefreshExpiries :
          JwtUtil_new(a, b, e, f)
  \/ /\ jwtUtil.state = "unloaded"
     /\ JwtUtil_new(envConfig.jwtSecret, envConfig.jwtRefreshSecret, envConfig.expiresIn,
                    envConfig.refreshExpiresIn)
  \/ getAccessTokenExpiry
  \/ getRefreshTokenExpiry
InitJwt ==
  /\ InitStore
  /\ nodeEnv \in Modes
  /\ jwtUtil = Unloaded
  /\ expiresIn = NoExpiry
SpecJwt == InitJwt /\ [][NextJwt]_vars

\* C23: once construction was attempted, it failed exactly when the mode is
\* production and the access secret or the refresh secret is its placeholder;
\* in particular it never fails outside production.
C23_PlaceholderSecretsRefused ==
  jwtUtil.state # "unloaded" =>
    (jwtUtil.state = "failed" <=>
       /\ nodeEnv = "production"
       /\ ("your-secret-key" = jwtUtil.accessTokenSecret
             \/ "your-refresh-secret" = jwtUtil.refreshTokenSecret))
C23_Witness ==
  /\ nodeEnv = "production"
  /\ jwtUtil.state = "failed"
  /\ jwtUtil.accessTokenSecret = "k1"
  /\ jwtUtil.refreshTokenSecret = "your-refresh-secret"

\* the number a string of decimal digits denotes
RECURSIVE Pow10(_)
Pow10(n) == IF n = 0 THEN 1 ELSE 10 * Pow10(n - 1)
RECURSIVE Denotes(_, _)
Denotes(ds, i) ==
  IF i > Len(ds) THEN 0
  ELSE digit(ds[i]) * Pow10(Len(ds) - i) + Denotes(ds, i + 1)
SecondsPer(unit) ==
  CASE unit = "s" -> 1 [] unit = "m" -> 60 [] unit = "h" -> 3600 [] unit = "d" -> 86400

\* C24: the seconds returned for an expiry string are the digits times 1, 60,
\* 3600 or 86400 when the string is one or more digits followed by one of s, m,
\* h, d, and 900 for every other string.
C24_ParseExpiry ==
  LET e == expiresIn.expiry
      n == Len(e)
  IN  expiresIn # NoExpiry =>
        IF /\ n >= 2
           /\ e[n] \in {"s", "m", "h", "d"}
           /\ \A i \in 1..(n - 1) : e[i] \in Digits
        THEN expiresIn.seconds = Denotes(SubSeq(e, 1, n - 1), 1) * SecondsPer(e[n])
        ELSE expiresIn.seconds = 900
C24_Witness ==
  /\ expiresIn.expiry = <<"1", "9", "h">>
  /\ expiresIn.seconds = 68400

\* ---------------------------------------------------------------- authenticate
\* the Authorization headers a client may send; a signature made with the access
\* secret exists only when there is one
AccessTokens ==
  [userId : 1..MaxLogins, exp : {t + AccessTTL : t \in Instants},
   sig : IF jwtUtil.accessTokenSecret = undefined THEN {"bad"} ELSE {"ok", "bad"}]
Headers ==
  {NoHeader} \cup [scheme : {"Basic ", "bearer "}, token : {NoAccess}]
             \cup [scheme : {"Bearer "}, token : AccessTokens \cup {NoAccess}]
profileSelect == {"user", "user.id", "user.email", "user.firstName", "user.lastName",
                  "user.avatar", "user.isEmailVerified", "user.lastLoginAt",
                  "user.createdAt", "user.updatedAt"}

\* next() without an error: control passes to the handler behind the middleware
nextCalled == [NoRes EXCEPT !.dmsg = "next()"]

\* authenticate: the header and the token's signature and expiry
authenticate(r, header) ==
  /\ Free(r)
  /\ LET q == [Blank EXCEPT !.op = "getProfile", !.auth = header]
         err == IF header.scheme # "Bearer " THEN unauthorized("No token provided")
                ELSE verifyAccessToken(header.token, now)
     IN  IF err # NoErr
           THEN /\ resp' = Thrown(q, err)
                /\ UNCHANGED reqs
           ELSE /\ reqs' = [reqs EXCEPT ![r] = [q EXCEPT !.pc = "findUnique"]]
                /\ UNCHANGED resp
  /\ UNCHANGED <<now, config, tables, orgTables, counters, history>>

\* authenticate: the user of the payload is looked up and attached to the request
authenticate_findUnique(r) ==
  /\ At(r, "getProfile", "findUnique")
  /\ LET user == UserById(reqs[r].auth.token.userId)
     IN  IF user = {}
           THEN /\ resp' = Thrown(reqs[r], unauthorized("User not found"))
                /\ reqs' = [reqs EXCEPT ![r] = Blank]
           ELSE /\ reqs' = [reqs EXCEPT ![r] =
                     [@ EXCEPT !.pc = "handler", !.uid = (CHOOSE u \in user : TRUE).id]]
                /\ UNCHANGED resp
  /\ UNCHANGED <<now, config, tables, orgTables, counters, history>>

\* optionalAuth: a header that is no Bearer token, or a token that does not
\* verify, passes on with next() and no user; a token that verifies goes to the
\* lookup
optionalAuth(r, header) ==
  /\ Free(r)
  /\ LET q == [Blank EXCEPT !.op = "optionalAuth", !.auth = header]
     IN  IF header.scheme # "Bearer " \/ verifyAccessToken(header.token, now) # NoErr
           THEN /\ resp' = Reply(q, nextCalled)
                /\ UNCHANGED reqs
           ELSE /\ reqs' = [reqs EXCEPT ![r] = [q EXCEPT !.pc = "findUnique"]]
                /\ UNCHANGED resp
  /\ UNCHANGED <<now, config, tables, orgTables, counters, history>>

\* optionalAuth: the user of the payload is looked up and, when found, attached
\* to the request; next() either way
optionalAuth_findUnique(r) ==
  /\ At(r, "optionalAuth", "findUnique")
  /\ LET user == UserById(reqs[r].auth.token.userId)
     IN  resp' = Reply([reqs[r] EXCEPT !.uid = IF user = {} THEN 0
                                               ELSE (CHOOSE u \in user : TRUE).id],
                       nextCalled)
  /\ reqs' = [reqs EXCEPT ![r] = Blank]
  /\ UNCHANGED <<now, config, tables, orgTables, counters, history>>

\* GET /me: AuthController.getProfile and AuthService.getProfile
getProfile(r) ==
  /\ At(r, "getProfile", "handler")
  /\ resp' = IF UserById(reqs[r].uid) = {}
               THEN Thrown(reqs[r], notFound("User Not Found."))
               ELSE Reply(reqs[r], success(200, "Success", profileSelect, "", NoTok, 0))
  /\ reqs' = [reqs EXCEPT ![r] = Blank]
  /\ UNCHANGED <<now, config, tables, orgTables, counters, history>>

NextAuthenticate ==
  \/ Tick
  \/ \E r \in Slots :
       \/ TokenBudget(MaxLogins) /\ register(r, "alice@x.com", "Abc12345!")
       \/ register_create(r)
       \/ register_generateTokens(r)
       \/ \E h \in Headers : authenticate(r, h)
       \/ authenticate_findUnique(r)
       \/ getProfile(r)
       \/ \E h \in Headers : optionalAuth(r, h)
       \/ optionalAuth_findUnique(r)
SpecAuthenticate == Start /\ [][NextAuthenticate]_vars

\* C25: the handler of a protected route runs only for a request whose header
\* is a Bearer access token with a good signature, not expired when it was
\* checked, whose userId is the id of a user, and then req.userId is that id;
\* a request without header, with another scheme, with a bad or expired token
\* or with the id of no user is answered 401 and gets no req.userId.
C25_AuthenticateGuardsHandlers ==
  /\ [](\A r \in Slots : At(r, "getProfile", "handler") =>
          /\ reqs[r].auth.scheme = "Bearer "
          /\ reqs[r].auth.token.sig = "ok"
          /\ reqs[r].uid = reqs[r].auth.token.userId
          /\ reqs[r].uid \in UserIds)
  /\ [][\A r \in Slots : \A h \in Headers :
          (/\ Free(r)
           /\ reqs'[r].pc = "findUnique" \/ (reqs' = reqs /\ resp'.op = "getProfile")
           /\ authenticate(r, h)) =>
          IF h.scheme = "Bearer " /\ h.token.sig = "ok" /\ now < h.token.exp
            THEN reqs'[r].pc = "findUnique" /\ reqs'[r].uid = 0 /\ UNCHANGED resp
            ELSE /\ resp'.res.status = 401 /\ ~resp'.res.ok
                 /\ reqs'[r] = Blank]_vars
  /\ [][\A r \in Slots :
          (At(r, "getProfile", "findUnique") /\ authenticate_findUnique(r)) =>
          IF reqs[r].auth.token.userId \in UserIds
            THEN /\ reqs'[r].pc = "handler"
                 /\ reqs'[r].uid = reqs[r].auth.token.userId
            ELSE /\ resp'.res.status = 401 /\ ~resp'.res.ok
                 /\ reqs'[r] = Blank]_vars
C25_Witness ==
  /\ resp.op = "getProfile" /\ resp.res.status = 401 /\ resp.res.message = "User not found"
  /\ \E r \in Slots : At(r, "getProfile", "handler") /\ reqs[r].uid = 1

\* ---------------------------------------------------------------- organization read
\* (the test of the row found is left out)
organizationNotFound_skipped(id) == NoErr
\* organization.findUnique by id and the test that follows: the error thrown
organizationNotFound(id) ==
  IF OrgById(id) = {} THEN notFound("Organization not found") ELSE NoErr

\* getOrganizationById: findUnique by id (copy: the service inside
\* organization.routes.ts, or the one of organization.service.ts)
getOrganizationById(r, id, userId, copy) ==
  /\ Free(r)
  /\ LET q == [Blank EXCEPT !.op = "getOrganizationById", !.uid = userId, !.row = id]
     IN  IF organizationNotFound(id) # NoErr
           THEN /\ resp' = Thrown(q, organizationNotFound(id))
                /\ UNCHANGED reqs
           ELSE /\ reqs' = [reqs EXCEPT ![r] =
                     [q EXCEPT !.pc = IF copy = "routes" THEN "verifyActiveMember"
                                      ELSE "findFirst"]]
                /\ UNCHANGED resp
  /\ UNCHANGED <<now, config, tables, orgTables, counters, history>>

\* getOrganizationById (organization.routes.ts): verifyActiveMember, then the row
getOrganizationById_verifyActiveMember(r) ==
  /\ At(r, "getOrganizationById", "verifyActiveMember")
  /\ LET err == verifyActiveMember(reqs[r].uid, reqs[r].row, OrganizationMember)
     IN  resp' = IF err # NoErr THEN Thrown(reqs[r], err)
                 ELSE Reply(reqs[r], success(200, "Organization retrieved successfully",
                                             organizationKeys \cup {"_count"}, "", NoTok, 0))
  /\ reqs' = [reqs EXCEPT ![r] = Blank]
  /\ UNCHANGED <<now, config, tables, orgTables, counters, history>>

\* getOrganizationById (organization.service.ts): organizationMember.findFirst
\* on userId, organizationId and status ACTIVE, then the row
getOrganizationById_findFirst(r) ==
  /\ At(r, "getOrganizationById", "findFirst")
  /\ resp' = IF findActiveMember(reqs[r].uid, reqs[r].row, OrganizationMember) = {}
               THEN Thrown(reqs[r], forbidden("You do not have access to this organization"))
               ELSE Reply(reqs[r], success(200, "Organization retrieved successfully",
                                           organizationKeys \cup {"_count"}, "", NoTok, 0))
  /\ reqs' = [reqs EXCEPT ![r] = Blank]
  /\ UNCHANGED <<now, config, tables, orgTables, counters, history>>

\* the bodies that pass updateOrganizationSchema and carry other columns
GatePayloads ==
  {[NoBody EXCEPT !.name = "Renamed"],
   [NoBody EXCEPT !.name = "Renamed", !.status = "ACTIVE"]}
  \cup {[NoBody EXCEPT !.name = "Renamed", !.ownerId = u] : u \in {x.id : x \in User}}
Copies == {"routes", "service"}

\* reads, updates and deletes by owners and by users without membership
NextGate ==
  \E r \in Slots :
    \/ \E e \in Emails : TokenBudget(MaxLogins) /\ register(r, e, "Abc12345!")
    \/ register_create(r)
    \/ register_generateTokens(r)
    \/ \E u \in UserIds : OrgBudget(MaxTenants) /\ createOrganizationAtomic(r, u, "acme")
    \/ createOrganizationAtomic_transaction(r, FALSE)
    \/ \E id \in OrgIds, u \in UserIds, c \in Copies : getOrganizationById(r, id, u, c)
    \/ getOrganizationById_verifyActiveMember(r)
    \/ getOrganizationById_findFirst(r)
    \/ \E id \in OrgIds, u \in UserIds : \E data \in GatePayloads :
         updateOrganization(r, id, u, data)
    \/ updateOrganization_verifyRole(r)
    \/ updateOrganization_update(r)
    \/ \E id \in OrgIds, u \in UserIds : deleteOrganization(r, id, u)
    \/ deleteOrganization_update(r)
SpecGate == Start /\ [][NextGate]_vars

\* reads, renames and deletes of an organization by its owner and by a stranger
Rename == [NoBody EXCEPT !.name = "Renamed"]
NextRead ==
  \E r \in Slots :
    \/ \E e \in Emails : TokenBudget(MaxLogins) /\ register(r, e, "Abc12345!")
    \/ register_create(r)
    \/ register_generateTokens(r)
    \/ \E u \in UserIds : OrgBudget(MaxTenants) /\ createOrganizationAtomic(r, u, "acme")
    \/ createOrganizationAtomic_transaction(r, FALSE)
    \/ \E id \in OrgIds, u \in UserIds, c \in Copies : getOrganizationById(r, id, u, c)
    \/ getOrganizationById_verifyActiveMember(r)
    \/ getOrganizationById_findFirst(r)
    \/ \E id \in OrgIds, u \in UserIds : updateOrganization(r, id, u, Rename)
    \/ updateOrganization_verifyRole(r)
    \/ updateOrganization_update(r)
    \/ \E id \in OrgIds, u \in UserIds : deleteOrganization(r, id, u)
    \/ deleteOrganization_update(r)
SpecRead == Start /\ [][NextRead]_vars

\* the user has a membership row of the organization with status ACTIVE
ActiveMember(userId, organizationId) ==
  \E m \in MemberRows(userId, organizationId) : m.status = "ACTIVE"

\* C26: a getOrganizationById call is answered 200, an updateOrganization call
\* gets past its access check and a deleteOrganization call gets past its
\* access check only when the caller has, at that step, a membership row of the
\* organization with status ACTIVE.
C26_ActiveMembershipGate ==
  [][/\ \A r \in Slots :
          (/\ reqs[r].op = "getOrganizationById" /\ reqs'[r] = Blank
           /\ resp'.res.status = 200) => ActiveMember(reqs[r].uid, reqs[r].row)
     /\ \A r \in Slots :
          (At(r, "updateOrganization", "verifyRole") /\ reqs'[r].pc = "update") =>
             ActiveMember(reqs[r].uid, reqs[r].row)
     /\ \A r \in Slots :
          (Free(r) /\ reqs'[r].op = "deleteOrganization" /\ reqs'[r].pc = "update") =>
             ActiveMember(reqs'[r].uid, reqs'[r].row)]_vars

\* C27: getOrganizationById, updateOrganization (with a body the schema
\* accepts) and deleteOrganization called with an id that has no Organization
\* row are answered 404 whoever calls, and a 403 answer of one of the three is
\* only given for an id that has a row.
C27_ExistenceBeforeAccess ==
  [][/\ \A r \in Slots, id \in OrgIds, u \in UserIds :
          OrgById(id) = {} =>
            /\ \A c \in Copies : getOrganizationById(r, id, u, c) =>
                 resp'.res.status = 404 /\ resp'.op = "getOrganizationById"
            /\ updateOrganization(r, id, u, Rename) =>
                 resp'.res.status = 404 /\ resp'.op = "updateOrganization"
            /\ deleteOrganization(r, id, u) =>
                 resp'.res.status = 404 /\ resp'.op = "deleteOrganization"
     /\ \A r \in Slots :
          (~Free(r) /\ reqs'[r] = Blank /\ resp'.res.status = 403) =>
             OrgById(reqs[r].row) # {}
     /\ \A r \in Slots, id \in OrgIds, u \in UserIds :
          (deleteOrganization(r, id, u) /\ reqs' = reqs /\ resp'.res.status = 403) =>
             OrgById(id) # {}]_vars
C27_Witness ==
  /\ resp.op = "getOrganizationById" /\ resp.res.status = 403
  /\ Organization # {}
  /\ \E r \in Slots : At(r, "getOrganizationById", "findFirst")

\* C28: updateOrganization gets past verifyRole exactly for a caller with an
\* ACTIVE membership of role OWNER or ADMIN; any other caller is answered 403
\* and no Organization row changes; an Organization row changes only in the
\* write of an updateOrganization call that got past verifyRole.
C28_UpdateOwnerOrAdminOnly ==
  [][/\ \A r \in Slots :
          (At(r, "updateOrganization", "verifyRole") /\ reqs'[r] # reqs[r]) =>
             IF \/ HasRole(reqs[r].uid, reqs[r].row, "OWNER")
                \/ HasRole(reqs[r].uid, reqs[r].row, "ADMIN")
               THEN reqs'[r].pc = "update" /\ Organization' = Organization
               ELSE /\ resp'.op = "updateOrganization" /\ resp'.res.status = 403
                    /\ reqs'[r] = Blank
                    /\ Organization' = Organization
     /\ (\E o \in Organization : o \notin Organization') =>
          \E r \in Slots : At(r, "updateOrganization", "update") /\ reqs'[r] = Blank]_vars
C28_Witness ==
  /\ resp.op = "updateOrganization" /\ resp.res.status = 403
  /\ resp.res.message = "Access denied. Required role: OWNER or ADMIN. Your role: MEMBER"
  /\ \E o \in Organization : o.name = "Renamed"

\* C29: every Organization row stays in the table under its id, and a row
\* whose status is CANCELED keeps that status.
C29_SoftDeleteTerminal ==
  [][\A o \in Organization :
       \E n \in Organization' :
          n.id = o.id /\ (o.status = "CANCELED" => n.status = "CANCELED")]_vars

\* ---------------------------------------------------------------- concurrent reset requests
\* forgot-password requests of one user that may overlap
NextForgotRace ==
  \/ Tick
  \/ \E r \in Slots :
       \/ TokenBudget(MaxLogins) /\ register(r, "alice@x.com", "Abc12345!")
       \/ register_create(r)
       \/ register_generateTokens(r)
       \/ \E e \in Emails : nextRaw <= MaxResets + 1 /\ requestPasswordReset(r, e)
       \/ requestPasswordReset_deleteMany(r)
       \/ requestPasswordReset_create(r)
SpecForgotRace == Start /\ [][NextForgotRace]_vars

\* the reset-token rows of a user that resetPassword would accept at time t
LiveResetRows(userId, t) ==
  {p \in PasswordResetToken : p.userId = userId /\ ~p.used /\ ~(p.expiresAt < t)}

\* C30: in every state each user has at most one PasswordResetToken row that is
\* unused and unexpired.
C30_OneLiveResetToken ==
  \A u \in UserIds : Cardinality(LiveResetRows(u, now)) <= 1

\* ---------------------------------------------------------------- refresh of an expired or unknown token
\* C31: a refreshToken call for a token with a good signature whose ledger row
\* is past its expiresAt is answered 401, its row is deleted and no row is
\* added; a call that finds no ledger row for its token is answered 401 and
\* the ledger stays as it is.
C31_ExpiredRowDeleted ==
  [][/\ \A r \in Slots : \A t \in issued :
          (/\ refreshToken(r, t) /\ t.sig = "ok"
           /\ \E row \in TokenRows(t) : now > row.expiresAt) =>
             \/ reqs'[r].pc = "findUnique"
             \/ /\ resp'.res.status = 401
                /\ {row \in RefreshToken' : row.token = t} = {}
                /\ RefreshToken' \subseteq RefreshToken
     /\ \A r \in Slots :
          (At(r, "refreshToken", "deleteExpired") /\ reqs'[r] = Blank) =>
             \/ {row \in RefreshToken : row.id = reqs[r].row} = {}
             \/ /\ resp'.res.status = 401
                /\ {row \in RefreshToken' : row.token = reqs[r].tok} = {}
                /\ RefreshToken' \subseteq RefreshToken
     /\ \A r \in Slots :
          (/\ At(r, "refreshToken", "findUnique") /\ reqs'[r] = Blank
           /\ TokenRows(reqs[r].tok) = {}) =>
             resp'.res.status = 401 /\ RefreshToken' = RefreshToken]_vars

\* ---------------------------------------------------------------- failed password change
\* password changes asked for registered and unregistered user ids
NextChange ==
  \/ \E r \in Slots :
       \/ TokenBudget(MaxLogins) /\ register(r, "alice@x.com", "Abc12345!")
       \/ register_create(r)
       \/ register_generateTokens(r)
       \/ \E u \in 1..MaxLogins, c \in Passwords, n \in Passwords : changePassword(r, u, c, n)
       \/ changePassword_compare(r)
       \/ changePassword_update(r)
       \/ changePassword_deleteMany(r)
SpecChange == Start /\ [][NextChange]_vars

\* C32: a changePassword call for an id without User row is answered 404 at
\* its lookup; a call that found the row is answered 401 at its comparison when
\* currentPassword is not the one the hash it read was made from, and goes on
\* otherwise; neither the lookup nor the comparison changes a User row or a
\* RefreshToken row, and a call answered 404 or 401 leaves no request behind.
C32_FailedChangeWritesNothing ==
  [][\A r \in Slots :
       /\ \A u \in 1..MaxLogins, c \in Passwords, n \in Passwords :
            changePassword(r, u, c, n) =>
              /\ User' = User /\ RefreshToken' = RefreshToken
              /\ IF UserById(u) = {}
                   THEN /\ resp'.op = "changePassword" /\ resp'.res.status = 404
                        /\ reqs' = reqs
                   ELSE /\ resp' = resp
                        /\ reqs'[r].pc = "compare" /\ reqs'[r].pw = c
                        /\ \E usr \in UserById(u) : reqs'[r].stored = usr.password
       /\ (At(r, "changePassword", "compare") /\ reqs'[r] # reqs[r]) =>
            /\ User' = User /\ RefreshToken' = RefreshToken
            /\ IF reqs[r].stored # hash(reqs[r].pw)
                 THEN /\ resp'.op = "changePassword" /\ resp'.uid = reqs[r].uid
                      /\ resp'.res.status = 401
                      /\ reqs'[r] = Blank
                 ELSE /\ resp' = resp
                      /\ reqs'[r].pc = "update"]_vars
C32_Witness ==
  /\ resp.op = "changePassword" /\ resp.res.status = 401
  /\ \E u \in User : u.id = resp.uid
  /\ \E r \in Slots : ~Free(r)

\* ---------------------------------------------------------------- the writes of a password reset
\* two users ask for reset tokens and redeem them
NextResetFrame ==
  \E r \in Slots :
    \/ \E e \in Emails : TokenBudget(MaxLogins) /\ register(r, e, "Abc12345!")
    \/ register_create(r)
    \/ register_generateTokens(r)
    \/ \E e \in Emails : nextRaw <= MaxResets + 1 /\ requestPasswordReset(r, e)
    \/ requestPasswordReset_deleteMany(r)
    \/ requestPasswordReset_create(r)
    \/ \E t \in mailed : resetPassword(r, t, "Xyz98765!")
    \/ resetPassword_update(r)
    \/ resetPassword_markUsed(r)
    \/ resetPassword_deleteMany(r)
SpecResetFrame == Start /\ [][NextResetFrame]_vars

\* C33: the writes of a resetPassword call that goes through: the first makes
\* the owner's stored password one that the new password verifies against and
\* touches no other user and no reset-token row; the second leaves the call's
\* reset-token row in the table with used = TRUE and touches no other row and no
\* user; the last touches neither table.
C33_ResetKeepsRowUsed ==
  [][\A r \in Slots :
       /\ (At(r, "resetPassword", "update") /\ reqs'[r].pc = "markUsed") =>
            /\ \E u \in User' : u.id = reqs[r].uid /\ compare(reqs[r].npw, u.password)
            /\ \A u \in User : u.id # reqs[r].uid => u \in User'
            /\ Cardinality(User') = Cardinality(User)
            /\ PasswordResetToken' = PasswordResetToken
       /\ (At(r, "resetPassword", "markUsed") /\ reqs'[r].pc = "deleteMany") =>
            /\ \E p \in PasswordResetToken' : p.id = reqs[r].row /\ p.used
            /\ \A p \in PasswordResetToken : p.id # reqs[r].row => p \in PasswordResetToken'
            /\ Cardinality(PasswordResetToken') = Cardinality(PasswordResetToken)
            /\ User' = User
       /\ (At(r, "resetPassword", "deleteMany") /\ reqs'[r] = Blank) =>
            /\ resp'.res.status = 200
            /\ User' = User /\ PasswordResetToken' = PasswordResetToken]_vars
C33_Witness ==
  /\ resp.op = "resetPassword" /\ resp.res.status = 200
  /\ \E p \in PasswordResetToken : p.used /\ p.userId = resp.uid
  /\ \E p \in PasswordResetToken : ~p.used /\ p.userId # resp.uid
  /\ \E u \in User : u.id = resp.uid /\ compare("Xyz98765!", u.password)
  /\ \E u \in User : u.id # resp.uid /\ compare("Abc12345!", u.password)


\* ---------------------------------------------------------------- refresh-token lifecycle
\* one user's refresh tokens are issued, rotated, expire and are revoked by
\* logout, changePassword and resetPassword (the clock advances between requests
\* and between a refreshToken call's verification and its ledger lookup)
NextLifecycle ==
  \/ (\A r \in Slots : Free(r) \/ At(r, "refreshToken", "findUnique")) /\ Tick
  \/ \E r \in Slots :
       \/ TokenBudget(MaxLogins) /\ register(r, "alice@x.com", "Abc12345!")
       \/ register_create(r)
       \/ register_generateTokens(r)
       \/ \E t \in issued :
            /\ TokenBudget(MaxLogins) \/ TokenRows(t) = {}
            /\ refreshToken(r, t)
       \/ refreshToken_findUnique(r)
       \/ refreshToken_deleteExpired(r)
       \/ refreshToken_generateTokens(r)
       \/ refreshToken_delete(r)
       \/ \E u \in UserIds, t \in issued \cup {NoTok} : logout(r, u, jsonBody(t, 0))
       \/ \E u \in UserIds : changePassword(r, u, "Abc12345!", "Abc12345!")
       \/ changePassword_compare(r)
       \/ changePassword_update(r)
       \/ changePassword_deleteMany(r)
       \/ nextRaw <= MaxResets /\ requestPasswordReset(r, "alice@x.com")
       \/ requestPasswordReset_deleteMany(r)
       \/ requestPasswordReset_create(r)
       \/ \E t \in mailed : resetPassword(r, t, "Abc12345!")
       \/ resetPassword_update(r)
       \/ resetPassword_markUsed(r)
       \/ resetPassword_deleteMany(r)
SpecLifecycle == InitProduction /\ [][NextLifecycle]_vars

\* C34: a refresh token that was handed out and has no ledger row is at the
\* end of its lifecycle: no step gives it a ledger row again, and no
\* refreshToken call presented with it ends with the 200 response
C34_DeletedTokenStaysDead ==
  [][\A t \in issued : TokenRows(t) = {} =>
       /\ {row \in RefreshToken' : row.token = t} = {}
       /\ \A r \in Slots :
            (reqs[r].op = "refreshToken" /\ reqs[r].tok = t /\ reqs'[r] = Blank) =>
              resp'.res.status # 200]_vars
\* a rotated-away token was presented again, after a password change emptied
\* the ledger, and was refused
C34_Witness ==
  /\ resp.op = "refreshToken"
  /\ resp.tok \in consumed
  /\ resp.res.status = 401
  /\ RefreshToken = {}
  /\ \E u \in User : u.id = resp.tok.userId

\* ---------------------------------------------------------------- reset-token digests
\* C35: every PasswordResetToken row stores, as tokenHash, the sha256 digest
\* of the raw token that was handed out for it (rows carry the number of that
\* raw token as id) and never the raw value, and a resetPassword call that
\* goes on to write found the row of exactly the raw token it was presented
\* with
C35_OnlyDigestStored ==
  [][/\ \A p \in PasswordResetToken' :
          /\ p.id \in mailed'
          /\ p.tokenHash = hashResetToken(p.id)
          /\ p.tokenHash.alg = "sha256"
     /\ \A r \in Slots :
          (Free(r) /\ reqs'[r].op = "resetPassword") =>
            /\ reqs'[r].pc = "update"
            /\ reqs'[r].row = reqs'[r].raw
            /\ \E p \in PasswordResetToken :
                 p.id = reqs'[r].row /\ p.tokenHash = hashResetToken(reqs'[r].raw)]_vars
\* a reset goes ahead for one raw token while the row of another raw token is
\* stored as well
C35_Witness ==
  \E r \in Slots :
    /\ At(r, "resetPassword", "update")
    /\ \E p, o \in PasswordResetToken :
         /\ p.id = reqs[r].raw /\ o.id # p.id
         /\ p.tokenHash = hashResetToken(reqs[r].raw)
         /\ ~o.used

\* ---------------------------------------------------------------- organization listing
\* (a filter that forgets the status)
membershipFilter_anyStatus(userId) ==
  {o \in Organization : \E m \in OrganizationMember :
     m.organizationId = o.id /\ m.userId = userId}
\* where: { members: { some: { userId, status: 'ACTIVE' } } }
membershipFilter(userId) ==
  {o \in Organization : \E m \in OrganizationMember :
     /\ m.organizationId = o.id /\ m.userId = userId /\ m.status = "ACTIVE"}
\* orderBy createdAt desc: the ids of the rows, newest first
RECURSIVE newestFirst(_)
newestFirst(rows) ==
  IF rows = {} THEN <<>>
  ELSE LET o == CHOOSE x \in rows : \A y \in rows : y.id <= x.id
       IN  <<o.id>> \o newestFirst(rows \ {o})
\* findMany with skip and take
findMany(userId, skip, take) ==
  LET all == newestFirst(membershipFilter(userId))
      last == IF skip + take < Len(all) THEN skip + take ELSE Len(all)
  IN  SubSeq(all, skip + 1, last)
\* count with the same filter
count(userId) == Cardinality(membershipFilter(userId))
\* the page numbers and page sizes of GET /organizations?page=&limit=
Paginations == {[page |-> 1, limit |-> 10], [page |-> 2, limit |-> 1]}
\* each user has a slug of their own in mind
SlugOf(userId) == IF userId = 1 THEN "acme" ELSE "beta"

\* the 200 response of the listing
listingBody ==
  success(200, "Organizations retrieved successfully", {"data", "meta"}, "", NoTok, 0)
\* getUserOrganizations: the copy in organization.service.ts has an empty body
\* and the controller sends what it returns; the copy in organization.routes.ts
\* starts findMany and count together (Promise.all)
getUserOrganizations(r, userId, page, limit, copy) ==
  /\ Free(r)
  /\ LET q == [Blank EXCEPT !.op = "getUserOrganizations", !.uid = userId,
                            !.page = page, !.limit = limit]
     IN  IF copy = "service"
           THEN /\ resp' = Reply([q EXCEPT !.why = "service"],
                                 success(200, "Organizations retrieved successfully",
                                         {}, "", NoTok, 0))
                /\ UNCHANGED reqs
           ELSE /\ reqs' = [reqs EXCEPT ![r] = [q EXCEPT !.pc = "queries", !.why = "routes"]]
                /\ UNCHANGED resp
  /\ UNCHANGED <<now, config, tables, orgTables, counters, history>>

\* getUserOrganizations: the findMany query returns (before or after count)
getUserOrganizations_findMany(r) ==
  /\ reqs[r].op = "getUserOrganizations" /\ reqs[r].pc \in {"queries", "findMany"}
  /\ LET q == [reqs[r] EXCEPT
                 !.list = findMany(reqs[r].uid, (reqs[r].page - 1) * reqs[r].limit,
                                   reqs[r].limit)]
     IN  IF reqs[r].pc = "queries"
           THEN /\ reqs' = [reqs EXCEPT ![r] = [q EXCEPT !.pc = "count"]]
                /\ UNCHANGED resp
           ELSE /\ resp' = Reply(q, listingBody)
                /\ reqs' = [reqs EXCEPT ![r] = Blank]
  /\ UNCHANGED <<now, config, tables, orgTables, counters, history>>

\* getUserOrganizations: the count query returns (before or after findMany)
getUserOrganizations_count(r) ==
  /\ reqs[r].op = "getUserOrganizations" /\ reqs[r].pc \in {"queries", "count"}
  /\ LET q == [reqs[r] EXCEPT !.total = count(reqs[r].uid)]
     IN  IF reqs[r].pc = "queries"
           THEN /\ reqs' = [reqs EXCEPT ![r] = [q EXCEPT !.pc = "findMany"]]
                /\ UNCHANGED resp
           ELSE /\ resp' = Reply(q, listingBody)
                /\ reqs' = [reqs EXCEPT ![r] = Blank]
  /\ UNCHANGED <<now, config, tables, orgTables, counters, history>>

\* users create organizations, join others, are suspended, and list theirs
NextListing ==
  \/ \E r \in Slots :
       \/ \E e \in Emails : TokenBudget(MaxLogins) /\ register(r, e, "Abc12345!")
       \/ register_create(r)
       \/ register_generateTokens(r)
       \/ \E u \in UserIds : OrgBudget(MaxOrgs) /\ createOrganizationAtomic(r, u, SlugOf(u))
       \/ createOrganizationAtomic_transaction(r, FALSE)
       \/ \E u \in UserIds, p \in Paginations, copy \in Copies :
            getUserOrganizations(r, u, p.page, p.limit, copy)
       \/ getUserOrganizations_findMany(r)
       \/ getUserOrganizations_count(r)
  \/ \E u \in UserIds, id \in 1..MaxOrgs :
       /\ Cardinality({m \in OrganizationMember : m.role # "OWNER"}) < MaxInvites
       /\ acceptInvitation(u, id, "MEMBER")
  \/ \E u \in UserIds, id \in 1..MaxOrgs, st \in {"ACTIVE", "SUSPENDED"} :
       setMemberStatus(u, id, st)
SpecListing == InitProduction /\ [][NextListing]_vars

\* C36: the findMany query of a getUserOrganizations call (the service of
\* organization.routes.ts) returns only organizations in which the caller has a
\* membership row with status ACTIVE, its count query returns the number of
\* those organizations, and the response of the call reports the list and that
\* total.
C36_ListsActiveMembershipsOnly ==
  [][\A r \in Slots :
       LET q == IF reqs'[r] = Blank THEN resp' ELSE reqs'[r]
       IN  /\ (reqs[r].op = "getUserOrganizations" /\ reqs[r].pc \in {"queries", "findMany"}
               /\ reqs'[r].pc \in {"count", "idle"}) =>
                \A i \in 1..Len(q.list) : ActiveMember(reqs[r].uid, q.list[i])
           /\ (reqs[r].op = "getUserOrganizations" /\ reqs[r].pc \in {"queries", "count"}
               /\ reqs'[r].pc \in {"findMany", "idle"}) =>
                q.total = Cardinality({o \in Organization : ActiveMember(reqs[r].uid, o.id)})
           /\ (resp' # resp /\ resp'.op = "getUserOrganizations" /\ resp'.why = "routes") =>
                /\ resp'.res.status = 200
                /\ {"data", "meta"} \subseteq resp'.res.fields
                /\ resp'.total >= 0]_vars
\* a listing was answered with one organization and a total of one for a user
\* who is an ACTIVE member of one organization and a SUSPENDED member of another
C36_Witness ==
  /\ resp.op = "getUserOrganizations" /\ resp.why = "routes"
  /\ resp.res.status = 200
  /\ Len(resp.list) = 1 /\ resp.total = 1
  /\ ActiveMember(resp.uid, resp.list[1])
  /\ \E m \in OrganizationMember :
       m.userId = resp.uid /\ m.status = "SUSPENDED" /\ m.organizationId # resp.list[1]

\* ---------------------------------------------------------------- slugs
\* organizations are created through both copies of the service, with slugs
\* that collide, and renamed with a body that carries a slug
NextSlug ==
  \E r \in Slots :
    \/ TokenBudget(MaxLogins) /\ register(r, "alice@x.com", "Abc12345!")
    \/ register_create(r)
    \/ register_generateTokens(r)
    \/ \E u \in UserIds, s \in Slugs : OrgBudget(MaxOrgs) /\ createOrganization(r, u, s)
    \/ createOrganization_create(r)
    \/ createOrganization_createMember(r, FALSE)
    \/ \E u \in UserIds, s \in Slugs : OrgBudget(MaxOrgs) /\ createOrganizationAtomic(r, u, s)
    \/ createOrganizationAtomic_transaction(r, FALSE)
    \/ \E id \in 1..MaxOrgs, u \in UserIds, s \in Slugs :
         updateOrganization(r, id, u, [NoBody EXCEPT !.name = "Renamed", !.slug = s])
    \/ updateOrganization_verifyRole(r)
    \/ updateOrganization_update(r)
SpecSlug == InitProduction /\ [][NextSlug]_vars

\* C37: after every step no two Organization rows share a slug; a
\* createOrganization call (either copy) for a slug that an organization holds,
\* when it looks the slug up or when it comes to write, is answered 409 and
\* leaves Organization and OrganizationMember as they were.
C37_SlugsUnique ==
  [][/\ \A a, b \in Organization' : a.slug = b.slug => a = b
     /\ \A r \in Slots :
          /\ \A u \in UserIds, s \in Slugs :
               (/\ Free(r) /\ OrgBySlug(s) # {}
                /\ createOrganization(r, u, s) \/ createOrganizationAtomic(r, u, s)) =>
                 /\ resp'.res.status = 409
                 /\ reqs' = reqs
                 /\ UNCHANGED orgTables
          /\ (/\ \/ At(r, "createOrganization", "create")
                 \/ At(r, "createOrganizationAtomic", "transaction")
              /\ reqs'[r] # reqs[r]
              /\ OrgBySlug(reqs[r].slug) # {}) =>
                 /\ resp'.res.status = 409
                 /\ reqs'[r] = Blank
                 /\ UNCHANGED orgTables]_vars
\* of two concurrent calls with the same slug, one created the organization
\* and the other was stopped by the unique index when it came to write
C37_Witness ==
  /\ resp.op \in {"createOrganization", "createOrganizationAtomic"}
  /\ resp.res.status = 409
  /\ resp.res.message = "Resource already exists"
  /\ Organization # {}

\* ---------------------------------------------------------------- password change against login and refresh
\* one user logs in and refreshes while the password is changed and reset
NextPasswordRace ==
  \E r \in Slots :
    \/ TokenBudget(MaxTokens) /\ register(r, "alice@x.com", "Abc12345!")
    \/ register_create(r)
    \/ register_generateTokens(r)
    \/ \E p \in Passwords : TokenBudget(MaxTokens) /\ login(r, "alice@x.com", p)
    \/ login_compare(r)
    \/ login_update(r)
    \/ login_generateTokens(r)
    \/ \E t \in issued :
         /\ TokenBudget(MaxTokens) \/ TokenRows(t) = {}
         /\ refreshToken(r, t)
    \/ refreshToken_findUnique(r)
    \/ refreshToken_generateTokens(r)
    \/ refreshToken_delete(r)
    \/ \E u \in UserIds : changePassword(r, u, "Abc12345!", "Xyz98765!")
    \/ changePassword_compare(r)
    \/ changePassword_update(r)
    \/ changePassword_deleteMany(r)
    \/ nextRaw <= MaxResets /\ requestPasswordReset(r, "alice@x.com")
    \/ requestPasswordReset_deleteMany(r)
    \/ requestPasswordReset_create(r)
    \/ \E t \in mailed : resetPassword(r, t, "Xyz98765!")
    \/ resetPassword_update(r)
    \/ resetPassword_markUsed(r)
    \/ resetPassword_deleteMany(r)
SpecPasswordRace == InitProduction /\ [][NextPasswordRace]_vars

\* C38: when the last response sent is the success of a changePassword or
\* resetPassword call for a user, and a login call of that user whose password
\* no longer verifies, or a refreshToken call of that user whose presented
\* token has lost its ledger row, finishes, the ledger holds no row of that
\* user afterwards.
C38_PasswordChangeRevokesUnderRace ==
  [][\A r \in Slots :
       LET changed == /\ resp.op \in {"changePassword", "resetPassword"}
                      /\ resp.res.status = 200
                      /\ resp.uid = reqs[r].uid
       IN  /\ (/\ changed /\ At(r, "login", "generateTokens") /\ reqs'[r] = Blank
               /\ \A u \in UserById(reqs[r].uid) : ~compare(reqs[r].pw, u.password)) =>
                 RowsOf(RefreshToken', reqs[r].uid) = {}
           /\ (/\ changed /\ At(r, "refreshToken", "delete") /\ reqs'[r] = Blank
               /\ TokenRows(reqs[r].tok) = {}) =>
                 RowsOf(RefreshToken', reqs[r].uid) = {}]_vars

\* ---------------------------------------------------------------- failed refresh
\* C39: when a refreshToken call that is under way ends with an error
\* response, the ledger holds no row that the call created (the row of the
\* token its generateTokens made).
C39_FailedRefreshLeavesNoToken ==
  [][\A r \in Slots :
       (reqs[r].op = "refreshToken" /\ reqs'[r] = Blank /\ resp'.res.status # 200) =>
         \/ reqs[r].out = NoTok
         \/ {row \in RefreshToken' : row.token = reqs[r].out} = {}]_vars

\* ---------------------------------------------------------------- tenant middleware
\* a || b || c on values of which 0 stands for the falsy ones (absent, empty)
firstTruthy(a, b, c) == IF a # 0 THEN a ELSE IF b # 0 THEN b ELSE c
\* what the header, the query and the body of a request name (0: nothing;
\* MaxTenants + 1: no such organization), the body being JSON or not sent
NamedOrgs ==
  {<<0, 0, jsonBody(NoTok, 0)>>, <<0, 0, undefinedBody>>,
   <<1, 0, undefinedBody>>, <<0, 1, undefinedBody>>, <<0, 0, jsonBody(NoTok, 1)>>,
   <<MaxTenants + 1, 1, jsonBody(NoTok, 0)>>, <<0, MaxTenants + 1, jsonBody(NoTok, 1)>>}

\* requireOrganization: the authentication test and the organization id taken
\* from the header, the query or the body (req.body.organizationId is read, and
\* throws on a request without body, only when header and query name nothing)
requireOrganization(r, userId, header, query, body) ==
  /\ Free(r)
  /\ LET organizationId == firstTruthy(header, query, body.organizationId)
         q == [Blank EXCEPT !.op = "requireOrganization", !.uid = userId]
     IN  IF userId = 0
           THEN /\ resp' = Thrown(q, unauthorized("Authentication required"))
                /\ UNCHANGED reqs
         ELSE IF header = 0 /\ query = 0 /\ ~body.present
           THEN /\ resp' = Thrown([q EXCEPT !.why = "no body"],
                       [MatchOfUndefined EXCEPT !.message =
                          "Cannot read properties of undefined (reading 'organizationId')"])
                /\ UNCHANGED reqs
         ELSE IF organizationId = 0
           THEN /\ resp' = Thrown(q, badRequest("Organization ID is required"))
                /\ UNCHANGED reqs
         ELSE /\ reqs' = [reqs EXCEPT ![r] = [q EXCEPT !.pc = "findFirst", !.row = organizationId]]
              /\ UNCHANGED resp
  /\ UNCHANGED <<now, config, tables, orgTables, counters, history>>

\* requireOrganization: organizationMember.findFirst with its organization,
\* the two tests on it, then the context on req and next()
requireOrganization_findFirst(r) ==
  /\ At(r, "requireOrganization", "findFirst")
  /\ LET found == findActiveMember(reqs[r].uid, reqs[r].row, OrganizationMember)
     IN  IF found = {}
           THEN resp' = Thrown(reqs[r], forbidden("You do not have access to this organization"))
         ELSE LET membership == CHOOSE m \in found : TRUE
                  organization == CHOOSE o \in OrgById(reqs[r].row) : TRUE
              IN  IF organization.status # "ACTIVE"
                    THEN resp' = Thrown(reqs[r], forbidden("This organization is not active"))
                    ELSE resp' = Reply([reqs[r] EXCEPT !.organizationId = reqs[r].row,
                                                       !.memberRole = membership.role],
                                       nextCalled)
  /\ reqs' = [reqs EXCEPT ![r] = Blank]
  /\ UNCHANGED <<now, config, tables, orgTables, counters, history>>

\* requests pass the tenant middleware while members join and are suspended
\* and the organization is deleted
NextMiddleware ==
  \/ \E r \in Slots :
       \/ \E e \in Emails : TokenBudget(MaxLogins) /\ register(r, e, "Abc12345!")
       \/ register_create(r)
       \/ register_generateTokens(r)
       \/ \E u \in UserIds : OrgBudget(MaxTenants) /\ createOrganizationAtomic(r, u, "acme")
       \/ createOrganizationAtomic_transaction(r, FALSE)
       \/ \E id \in OrgIds, u \in UserIds : deleteOrganization(r, id, u)
       \/ deleteOrganization_update(r)
       \/ \E u \in UserIds \cup {0}, n \in NamedOrgs :
            requireOrganization(r, u, n[1], n[2], n[3])
       \/ requireOrganization_findFirst(r)
  \/ \E u \in UserIds, id \in OrgIds, role \in InvitedRoles :
       /\ Cardinality({m \in OrganizationMember : m.role # "OWNER"}) < MaxInvites
       /\ acceptInvitation(u, id, role)
  \/ \E u \in UserIds, id \in OrgIds, st \in {"ACTIVE", "SUSPENDED"} : setMemberStatus(u, id, st)
SpecMiddleware == InitProduction /\ [][NextMiddleware]_vars

\* C40: requireOrganization answers 401 when the request has no user, else 400
\* when header, query and body name no organization, else 403 'You do not have
\* access to this organization' when the user has no ACTIVE membership row in
\* the organization named, else 403 'This organization is not active' when the
\* organization's status is not ACTIVE, and in these four cases attaches no
\* context; else it calls next() with req.organizationId the organization
\* named and req.memberRole the role of the membership row.
C40_TenantContext ==
  [][\A r \in Slots :
       /\ \A u \in UserIds \cup {0}, n \in NamedOrgs :
            (/\ Free(r)
             /\ \/ reqs'[r].op = "requireOrganization" /\ reqs'[r].uid = u
                \/ resp' # resp /\ resp'.op = "requireOrganization" /\ resp'.uid = u
             /\ requireOrganization(r, u, n[1], n[2], n[3])) =>
               IF u = 0
                 THEN /\ resp'.res.status = 401 /\ resp'.organizationId = 0
                      /\ resp'.memberRole = "" /\ reqs' = reqs
               ELSE IF n[1] = 0 /\ n[2] = 0 /\ n[3].organizationId = 0
                 THEN /\ resp'.res.status = 400 /\ resp'.organizationId = 0
                      /\ resp'.memberRole = "" /\ reqs' = reqs
               ELSE /\ resp' = resp
                    /\ reqs'[r].row = (IF n[1] # 0 THEN n[1]
                                       ELSE IF n[2] # 0 THEN n[2] ELSE n[3].organizationId)
       /\ (At(r, "requireOrganization", "findFirst") /\ reqs'[r] = Blank) =>
            LET id == reqs[r].row
                rows == {m \in MemberRows(reqs[r].uid, id) : m.status = "ACTIVE"}
            IN  IF rows = {}
                  THEN /\ resp'.res.status = 403
                       /\ resp'.res.message = "You do not have access to this organization"
                       /\ resp'.organizationId = 0 /\ resp'.memberRole = ""
                ELSE IF \E o \in Organization : o.id = id /\ o.status # "ACTIVE"
                  THEN /\ resp'.res.status = 403
                       /\ resp'.res.message = "This organization is not active"
                       /\ resp'.organizationId = 0 /\ resp'.memberRole = ""
                ELSE /\ resp'.res = nextCalled
                     /\ resp'.organizationId = id
                     /\ \E m \in rows : resp'.memberRole = m.role]_vars
====
